---------------------------- MODULE Spec2Model ----------------------------
(***************************************************************************)
(* A model of the GmailMind action safety gate and autonomous cycle:       *)
(*   agent/safety_guard.py   SafetyGuard (check_action, guard, is_spam)    *)
(*   agent/tool_wrappers.py  the safety-guarded tool wrappers              *)
(*   agent/reasoning_loop.py observe / think / act / remember / report     *)
(*   memory/short_term.py    ShortTermMemory (the session)                 *)
(*   memory/long_term.py     sender profiles and the audit log             *)
(*   scheduler/tasks.py      the periodic tasks                            *)
(*                                                                         *)
(* Texts are sequences of one-character strings, so that Python's          *)
(* substring test, str.lower, str.split and the regular expressions of     *)
(* the guard are computed on the characters, as the code computes them.    *)
(***************************************************************************)
EXTENDS Integers, Sequences, FiniteSets, TLC

(***************************************************************************)
(* Text primitives.                                                        *)
(***************************************************************************)

UPPERCASE == <<"A","B","C","D","E","F","G","H","I","J","K","L","M","N","O","P","Q","R","S","T","U","V","W","X","Y","Z">>
LOWERCASE == <<"a","b","c","d","e","f","g","h","i","j","k","l","m","n","o","p","q","r","s","t","u","v","w","x","y","z">>
DIGITS == <<"0","1","2","3","4","5","6","7","8","9">>

Range(s) == {s[i] : i \in 1..Len(s)}

\* Python's \s for ASCII text: the whitespace characters the texts here can hold.
IsSpace(c) == c \in {" ", "\t", "\n", "\r", "\f"}

\* Python's \w for ASCII text.
IsWordChar(c) == c \in Range(UPPERCASE) \cup Range(LOWERCASE) \cup Range(DIGITS) \cup {"_"}

\* str.lower() / re.IGNORECASE on one ASCII character.
LowerOf == [c \in Range(UPPERCASE) |->
              LOWERCASE[CHOOSE i \in 1..Len(UPPERCASE) : UPPERCASE[i] = c]]

LowerChar(c) == IF c \in DOMAIN LowerOf THEN LowerOf[c] ELSE c

\* str.lower()
Lower(s) == SubSeq([i \in 1..Len(s) |-> LowerChar(s[i])], 1, Len(s))

\* s[i:].startswith(lit), 1-based.
StartsAt(s, i, lit) ==
    /\ i >= 1
    /\ i + Len(lit) - 1 <= Len(s)
    /\ \A k \in 1..Len(lit) : s[i + k - 1] = lit[k]

\* Python's "lit in s".
Contains(s, lit) == \E i \in 1..(Len(s) - Len(lit) + 1) : StartsAt(s, i, lit)

\* The first index >= i that holds no whitespace (Len(s)+1 when none): where
\* a greedy \s* ends.
RECURSIVE SkipSpace(_, _)
SkipSpace(s, i) ==
    IF i <= Len(s) /\ IsSpace(s[i]) THEN SkipSpace(s, i + 1) ELSE i

\* \b before index i and after index j of s, for a match s[i..j] that
\* begins and ends with a word character.
BoundaryBefore(s, i) == i = 1 \/ ~IsWordChar(s[i - 1])
BoundaryAfter(s, j) == j = Len(s) \/ ~IsWordChar(s[j + 1])

\* str.strip() on ASCII whitespace.
RECURSIVE Strip(_)
Strip(s) ==
    IF s = << >> THEN s
    ELSE IF IsSpace(Head(s)) THEN Strip(Tail(s))
    ELSE IF IsSpace(s[Len(s)]) THEN Strip(SubSeq(s, 1, Len(s) - 1))
    ELSE s

\* str.split(sep) for a one-character separator: the pieces between the
\* separators, empty pieces kept ("a,,b" gives three, "" gives one).
Split(s, sep) ==
    LET \* the indices of the separators, in order
        seps == SelectSeq([i \in 1..Len(s) |-> i], LAMBDA i : s[i] = sep)
        \* the index of the k-th separator; 0 before the first piece and
        \* Len(s)+1 after the last
        SepAt(k) == IF k = 0 THEN 0
                    ELSE IF k > Len(seps) THEN Len(s) + 1
                    ELSE seps[k]
    IN  [k \in 1..(Len(seps) + 1) |-> SubSeq(s, SepAt(k - 1) + 1, SepAt(k) - 1)]

\* " ".join(parts)
RECURSIVE JoinSpace(_)
JoinSpace(parts) ==
    IF parts = << >> THEN << >>
    ELSE IF Len(parts) = 1 THEN parts[1]
    ELSE parts[1] \o << " " >> \o JoinSpace(Tail(parts))

(***************************************************************************)
(* config.settings and the data tables of SafetyGuard.                     *)
(***************************************************************************)

\* config.settings.DAILY_ACTION_LIMIT, the per-session action budget read by
\* is_daily_limit_exceeded.  A deployment setting; the model runs it small.
DAILY_ACTION_LIMIT == 2

\* config.settings.MAX_RECIPIENTS_PER_SEND (the rule is named
\* never_send_mass_email_over_50; the tests allow 50 and block 51).
MAX_RECIPIENTS_PER_SEND == 50

HARD_RULES == <<
    <<"n","e","v","e","r","_","d","e","l","e","t","e","_","e","m","a","i","l","_","p","e","r","m","a","n","e","n","t","l","y">>,
    <<"n","e","v","e","r","_","s","e","n","d","_","m","a","s","s","_","e","m","a","i","l","_","o","v","e","r","_","5","0">>,
    <<"n","e","v","e","r","_","s","h","a","r","e","_","c","r","e","d","e","n","t","i","a","l","s">>,
    <<"n","e","v","e","r","_","r","e","p","l","y","_","t","o","_","s","p","a","m">>,
    <<"n","e","v","e","r","_","t","a","k","e","_","f","i","n","a","n","c","i","a","l","_","a","c","t","i","o","n","s">>,
    <<"n","e","v","e","r","_","i","m","p","e","r","s","o","n","a","t","e">>,
    <<"s","t","o","p","_","i","f","_","d","a","i","l","y","_","l","i","m","i","t","_","e","x","c","e","e","d","e","d">> >>

FINANCIAL_KEYWORDS == <<
    <<"w","i","r","e"," ","t","r","a","n","s","f","e","r">>,
    <<"b","a","n","k"," ","t","r","a","n","s","f","e","r">>,
    <<"s","e","n","d"," ","m","o","n","e","y">>,
    <<"p","a","y","m","e","n","t">>,
    <<"i","n","v","o","i","c","e"," ","p","a","y","m","e","n","t">>,
    <<"p","a","y"," ","n","o","w">>,
    <<"b","i","t","c","o","i","n">>,
    <<"c","r","y","p","t","o">>,
    <<"w","a","l","l","e","t"," ","a","d","d","r","e","s","s">>,
    <<"r","o","u","t","i","n","g"," ","n","u","m","b","e","r">>,
    <<"a","c","c","o","u","n","t"," ","n","u","m","b","e","r">> >>

DESTRUCTIVE_ACTIONS ==
    {"delete_email", "delete_email_permanently", "trash_email_permanently",
     "purge", "expunge"}

impersonation_phrases == <<
    <<"i"," ","a","m"," ","t","h","e"," ","c","e","o">>,
    <<"i"," ","a","m"," ","t","h","e"," ","o","w","n","e","r">>,
    <<"t","h","i","s"," ","i","s"," ","t","h","e"," ","c","e","o">>,
    <<"s","p","e","a","k","i","n","g"," ","o","n"," ","b","e","h","a","l","f"," ","o","f"," ","t","h","e"," ","b","o","a","r","d">>,
    <<"a","s"," ","t","h","e"," ","l","e","g","a","l"," ","r","e","p","r","e","s","e","n","t","a","t","i","v","e">>,
    <<"i"," ","a","m"," ","a","u","t","h","o","r","i","z","e","d"," ","t","o"," ","s","i","g","n">>,
    <<"i"," ","h","a","v","e"," ","a","u","t","h","o","r","i","t","y"," ","t","o">>,
    <<"a","c","t","i","n","g"," ","a","s"," ","d","i","r","e","c","t","o","r">> >>

(***************************************************************************)
(* The regular expressions, each computed on the lower-cased text (all are *)
(* compiled with re.IGNORECASE and hold no upper-case-only class).         *)
(***************************************************************************)

\* kw\s*[:=]\s*\S+ : the keyword, optional whitespace, ':' or '=', optional
\* whitespace, then at least one non-whitespace character.
KeywordAssignment(s, kw) ==
    \E i \in 1..Len(s) :
        /\ StartsAt(s, i, kw)
        /\ LET j == SkipSpace(s, i + Len(kw)) IN
             /\ j <= Len(s)
             /\ s[j] \in {":", "="}
             /\ SkipSpace(s, j + 1) <= Len(s)

\* [A-Za-z0-9\-._~+/]
IsBearerChar(c) ==
    c \in Range(LOWERCASE) \cup Range(UPPERCASE) \cup Range(DIGITS)
          \cup {"-", ".", "_", "~", "+", "/"}

\* bearer\s+[A-Za-z0-9\-._~+/]+=*
BearerToken(s) ==
    \E i \in 1..Len(s) :
        /\ StartsAt(s, i, <<"b","e","a","r","e","r">>)
        /\ i + 6 <= Len(s)
        /\ IsSpace(s[i + 6])
        /\ LET j == SkipSpace(s, i + 6) IN j <= Len(s) /\ IsBearerChar(s[j])

\* w1\s+w2
TwoWords(s, w1, w2) ==
    \E i \in 1..Len(s) :
        /\ StartsAt(s, i, w1)
        /\ i + Len(w1) <= Len(s)
        /\ IsSpace(s[i + Len(w1)])
        /\ StartsAt(s, SkipSpace(s, i + Len(w1)), w2)

\* The index after a match of w\s+ at index i of s, 0 when there is none.
PastWordSpace(s, i, w) ==
    IF StartsAt(s, i, w) /\ i + Len(w) <= Len(s) /\ IsSpace(s[i + Len(w)])
    THEN SkipSpace(s, i + Len(w))
    ELSE 0

\* PRIVATE\s+KEY----- at index j of s.
PrivateKeyAt(s, j) ==
    LET k == PastWordSpace(s, j, <<"p","r","i","v","a","t","e">>) IN
    k > 0 /\ StartsAt(s, k, <<"k","e","y","-","-","-","-","-">>)

\* -----BEGIN\s+(RSA\s+)?PRIVATE\s+KEY-----
PrivateKeyHeader(s) ==
    \E i \in 1..Len(s) :
        LET b == PastWordSpace(s, i, <<"-","-","-","-","-","b","e","g","i","n">>) IN
        /\ b > 0
        /\ \/ PrivateKeyAt(s, b)
           \/ LET r == PastWordSpace(s, b, <<"r","s","a">>) IN r > 0 /\ PrivateKeyAt(s, r)

\* SafetyGuard._CREDENTIAL_PATTERNS: pattern k of the list matches text.
CREDENTIAL_PATTERNS(k, text) ==
    LET s == Lower(text) IN
    CASE k = 1 -> KeywordAssignment(s, <<"p","a","s","s","w","o","r","d">>)
      [] k = 2 -> \/ KeywordAssignment(s, <<"a","p","i","k","e","y">>)
                  \/ KeywordAssignment(s, <<"a","p","i","_","k","e","y">>)
                  \/ KeywordAssignment(s, <<"a","p","i","-","k","e","y">>)
      [] k = 3 -> KeywordAssignment(s, <<"s","e","c","r","e","t">>)
      [] k = 4 -> KeywordAssignment(s, <<"t","o","k","e","n">>)
      [] k = 5 -> BearerToken(s)
      [] k = 6 -> PrivateKeyHeader(s)

\* repr(pattern.pattern) of credential pattern k, as the denial reason shows it.
CredentialPatternRepr(k) ==
    CASE k = 1 -> <<"'","p","a","s","s","w","o","r","d","\\","\\","s","*","[",":","=","]","\\","\\","s","*","\\","\\","S","+","'">>
      [] k = 2 -> <<"'","a","p","i","[","_","-","]","?","k","e","y","\\","\\","s","*","[",":","=","]","\\","\\","s","*","\\","\\","S","+","'">>
      [] k = 3 -> <<"'","s","e","c","r","e","t","\\","\\","s","*","[",":","=","]","\\","\\","s","*","\\","\\","S","+","'">>
      [] k = 4 -> <<"'","t","o","k","e","n","\\","\\","s","*","[",":","=","]","\\","\\","s","*","\\","\\","S","+","'">>
      [] k = 5 -> <<"'","b","e","a","r","e","r","\\","\\","s","+","[","A","-","Z","a","-","z","0","-","9","\\","\\","-",".","_","~","+","/","]","+","=","*","'">>
      [] k = 6 -> <<"'","-","-","-","-","-","B","E","G","I","N","\\","\\","s","+","(","R","S","A","\\","\\","s","+",")","?","P","R","I","V","A","T","E","\\","\\","s","+","K","E","Y","-","-","-","-","-","'">>

\* \bw\b somewhere in s.
WholeWord(s, w) ==
    \E i \in 1..Len(s) :
        StartsAt(s, i, w) /\ BoundaryBefore(s, i) /\ BoundaryAfter(s, i + Len(w) - 1)

\* \bfree\b.*\b(w)\b : "free" as a word, then on the same line w as a word.
FreeThen(s, w) ==
    \E i \in 1..Len(s) :
        /\ StartsAt(s, i, <<"f","r","e","e">>)
        /\ BoundaryBefore(s, i) /\ BoundaryAfter(s, i + 3)
        /\ \E k \in (i + 4)..Len(s) :
              /\ StartsAt(s, k, w)
              /\ BoundaryBefore(s, k) /\ BoundaryAfter(s, k + Len(w) - 1)
              /\ \A m \in (i + 4)..(k - 1) : s[m] # "\n"

\* SafetyGuard._SPAM_PATTERNS: pattern k of the list matches text.
SPAM_PATTERNS(k, text) ==
    LET s == Lower(text) IN
    CASE k = 1 -> \/ TwoWords(s, <<"b","u","y">>, <<"n","o","w">>)
                  \/ TwoWords(s, <<"a","c","t">>, <<"n","o","w">>)
                  \/ TwoWords(s, <<"l","i","m","i","t","e","d">>, <<"t","i","m","e">>)
      [] k = 2 -> TwoWords(s, <<"c","l","i","c","k">>, <<"h","e","r","e">>) \/ Contains(s, <<"u","n","s","u","b","s","c","r","i","b","e">>)
      [] k = 3 -> \/ Contains(s, <<"v","i","a","g","r","a">>) \/ Contains(s, <<"c","i","a","l","i","s">>)
                  \/ Contains(s, <<"l","o","t","t","e","r","y">>) \/ Contains(s, <<"w","i","n","n","e","r">>)
                  \/ Contains(s, <<"p","r","i","n","c","e">>)
      [] k = 4 -> \/ TwoWords(s, <<"e","a","r","n">>, <<"m","o","n","e","y">>)
                  \/ TwoWords(s, <<"m","a","k","e">>, <<"$">>)
                  \/ TwoWords(s, <<"f","r","e","e">>, <<"g","i","f","t">>)
      [] k = 5 -> \/ Contains(s, <<"n","i","g","e","r","i","a","n">>) \/ Contains(s, <<"i","n","h","e","r","i","t","a","n","c","e">>)
                  \/ TwoWords(s, <<"m","i","l","l","i","o","n">>, <<"d","o","l","l","a","r","s">>)
      [] k = 6 -> \/ WholeWord(s, <<"w","i","n">>) \/ WholeWord(s, <<"w","o","n">>)
                  \/ WholeWord(s, <<"c","o","n","g","r","a","t","u","l","a","t","i","o","n","s">>)
      [] k = 7 -> \/ FreeThen(s, <<"m","o","n","e","y">>) \/ FreeThen(s, <<"c","a","s","h">>)
                  \/ FreeThen(s, <<"p","r","i","z","e">>) \/ FreeThen(s, <<"o","f","f","e","r">>)
      [] k = 8 -> \E i \in 1..Len(s) :
                      StartsAt(s, i, <<"n","o","r","e","p","l","y","@">>) /\ BoundaryBefore(s, i)

NumSpamPatterns == 8
NumCredentialPatterns == 6

(***************************************************************************)
(* Values the guard works on.                                              *)
(*                                                                         *)
(* A params dict is a record of the keys the guard reads, an absent key    *)
(* holding the default its params.get gives:                               *)
(*   to            [kind, str, list]: a str, a list of strs, or neither    *)
(*   subject, body texts                                                   *)
(*   email_context [keys, subject, body, snippet, sender, from]            *)
(* A denial reason is the text of the reason string, so that               *)
(* reason.split(":")[0].strip() is computed on its characters.             *)
(***************************************************************************)

NoText == << >>

\* email.get(key, "") on an email_context dict.
CtxGet(email, key) == IF key \in email.keys THEN email[key] ELSE NoText

\* The dict {} (params.get("email_context", {})).
EmptyContext ==
    [keys |-> {}, subject |-> NoText, body |-> NoText, snippet |-> NoText,
     sender |-> [dict |-> FALSE, val |-> NoText], from |-> NoText]

\* f"{n}" for an int n >= 0.
RECURSIVE Decimal(_)
Decimal(n) ==
    IF n < 10 THEN << DIGITS[n + 1] >>
    ELSE Decimal(n \div 10) \o << DIGITS[(n % 10) + 1] >>

\* The characters of an action name, as f"{action}" renders it.
ActionText(action) ==
    CASE action = "delete_email" -> <<"d","e","l","e","t","e","_","e","m","a","i","l">>
      [] action = "delete_email_permanently" -> <<"d","e","l","e","t","e","_","e","m","a","i","l","_","p","e","r","m","a","n","e","n","t","l","y">>
      [] action = "trash_email_permanently" -> <<"t","r","a","s","h","_","e","m","a","i","l","_","p","e","r","m","a","n","e","n","t","l","y">>
      [] action = "purge" -> <<"p","u","r","g","e">>
      [] action = "expunge" -> <<"e","x","p","u","n","g","e">>

\* A rule check that passes returns None.
None == [violated |-> FALSE, reason |-> << >>]

Violation(reason) == [violated |-> TRUE, reason |-> reason]

(***************************************************************************)
(* SafetyGuard.  count is session_memory.action_count() at the call.       *)
(***************************************************************************)

\* is_daily_limit_exceeded with > in place of >=.
is_daily_limit_exceeded_above(count) == count > DAILY_ACTION_LIMIT

is_daily_limit_exceeded(count) == count >= DAILY_ACTION_LIMIT

\* is_spam, the number of patterns of _SPAM_PATTERNS that match the text
\* joined from subject, body, snippet and the sender's address.
SpamMatches(email) ==
    LET fields == << CtxGet(email, "subject"), CtxGet(email, "body"),
                     CtxGet(email, "snippet") >>
        text_parts == SelectSeq(fields, LAMBDA val : val # NoText)
        s1 == IF "sender" \in email.keys THEN email.sender
              ELSE [dict |-> FALSE, val |-> NoText]
        \* email.get("sender", "") or email.get("from", "")
        sender == IF s1.dict \/ s1.val # NoText
                  THEN s1
                  ELSE [dict |-> FALSE, val |-> CtxGet(email, "from")]
        \* a dict gives its "email", a str itself
        combined == JoinSpace(Append(text_parts, sender.val))
    IN  Cardinality({k \in 1..NumSpamPatterns : SPAM_PATTERNS(k, combined)})

\* is_spam classifying on a single matching pattern.
is_spam_single(email) == SpamMatches(email) >= 1

is_spam(email) == SpamMatches(email) >= 2

check_daily_limit(count) ==
    IF is_daily_limit_exceeded(count)
    THEN Violation(<<"s","t","o","p","_","i","f","_","d","a","i","l","y","_","l","i","m","i","t","_","e","x","c","e","e","d","e","d",":"," ","D","a","i","l","y"," ","a","c","t","i","o","n"," ","l","i","m","i","t"," ","o","f"," ">>
                   \o Decimal(DAILY_ACTION_LIMIT)
                   \o <<" ","h","a","s"," ","b","e","e","n"," ","r","e","a","c","h","e","d","."," ","N","o"," ","f","u","r","t","h","e","r"," ","a","c","t","i","o","n","s"," ","a","r","e"," ","p","e","r","m","i","t","t","e","d"," ","t","h","i","s"," ","s","e","s","s","i","o","n",".">>)
    ELSE None

\* _check_permanent_deletion with "purge" missing from the destructive set.
check_permanent_deletion_without_purge(action) ==
    IF action \in DESTRUCTIVE_ACTIONS \ {"purge"}
    THEN Violation(HARD_RULES[1] \o <<":"," ","A","c","t","i","o","n"," ","w","o","u","l","d"," ","p","e","r","m","a","n","e","n","t","l","y"," ","d","e","l","e","t","e"," ","d","a","t","a",".">>)
    ELSE None

check_permanent_deletion(action) ==
    IF action \in DESTRUCTIVE_ACTIONS
    THEN Violation(<<"n","e","v","e","r","_","d","e","l","e","t","e","_","e","m","a","i","l","_","p","e","r","m","a","n","e","n","t","l","y",":"," ","A","c","t","i","o","n"," ","'">>
                   \o ActionText(action)
                   \o <<"'"," ","w","o","u","l","d"," ","p","e","r","m","a","n","e","n","t","l","y"," ","d","e","l","e","t","e"," ","d","a","t","a","."," ","T","h","i","s"," ","i","s"," ","p","r","o","h","i","b","i","t","e","d",".">>)
    ELSE None

\* The recipients list _check_mass_email builds from params["to"].
Recipients(to) ==
    IF to.kind = "str"
    THEN LET pieces == Split(to.str, ",") IN
         SelectSeq([i \in 1..Len(pieces) |-> Strip(pieces[i])],
                   LAMBDA addr : addr # NoText)
    ELSE IF to.kind = "list" THEN to.list
    ELSE << >>

\* _check_mass_email with >= in place of >.
check_mass_email_at_limit(action, params) ==
    IF action \notin {"send_email", "create_draft"} THEN None
    ELSE LET recipients == Recipients(params.to) IN
         IF Len(recipients) >= MAX_RECIPIENTS_PER_SEND
         THEN Violation(HARD_RULES[2] \o <<":"," ","A","t","t","e","m","p","t","e","d"," ","t","o"," ","s","e","n","d"," ","t","o"," ">>
                        \o Decimal(Len(recipients)) \o <<" ","r","e","c","i","p","i","e","n","t","s",".">>)
         ELSE None

check_mass_email(action, params) ==
    IF action \notin {"send_email", "create_draft"} THEN None
    ELSE LET recipients == Recipients(params.to) IN
         IF Len(recipients) > MAX_RECIPIENTS_PER_SEND
         THEN Violation(<<"n","e","v","e","r","_","s","e","n","d","_","m","a","s","s","_","e","m","a","i","l","_","o","v","e","r","_","5","0",":"," ","A","t","t","e","m","p","t","e","d"," ","t","o"," ","s","e","n","d"," ","t","o"," ">>
                        \o Decimal(Len(recipients))
                        \o <<" ","r","e","c","i","p","i","e","n","t","s"," ","(","l","i","m","i","t",":"," ">>
                        \o Decimal(MAX_RECIPIENTS_PER_SEND) \o <<")",".">>)
         ELSE None

check_credential_leakage(action, params) ==
    IF action \notin {"send_email", "reply_to_email", "create_draft"} THEN None
    ELSE LET text_to_check == params.subject \o << " " >> \o params.body
             hits == {k \in 1..NumCredentialPatterns : CREDENTIAL_PATTERNS(k, text_to_check)}
         IN  IF hits # {}
             THEN LET first == CHOOSE k \in hits : \A j \in hits : k <= j IN
                  Violation(<<"n","e","v","e","r","_","s","h","a","r","e","_","c","r","e","d","e","n","t","i","a","l","s",":"," ","O","u","t","g","o","i","n","g"," ","m","e","s","s","a","g","e"," ","a","p","p","e","a","r","s"," ","t","o"," ","c","o","n","t","a","i","n"," ","c","r","e","d","e","n","t","i","a","l","s"," ","o","r"," ","s","e","c","r","e","t","s"," ","(","m","a","t","c","h","e","d",":"," ">>
                            \o CredentialPatternRepr(first) \o <<")",".">>)
             ELSE None

check_spam_reply(action, params) ==
    IF action # "reply_to_email" THEN None
    ELSE LET email_context == params.email_context IN
         IF email_context.keys # {} /\ is_spam(email_context)
         THEN Violation(<<"n","e","v","e","r","_","r","e","p","l","y","_","t","o","_","s","p","a","m",":"," ","T","h","e"," ","o","r","i","g","i","n","a","l"," ","e","m","a","i","l"," ","h","a","s"," ","b","e","e","n"," ","f","l","a","g","g","e","d"," ","a","s"," ","s","p","a","m","."," ","R","e","p","l","y","i","n","g"," ","i","s"," ","p","r","o","h","i","b","i","t","e","d",".">>)
         ELSE None

check_financial_action(action, params) ==
    IF action \notin {"send_email", "reply_to_email", "create_draft"} THEN None
    ELSE LET combined == Lower(params.subject) \o << " " >> \o Lower(params.body)
             hits == {k \in 1..Len(FINANCIAL_KEYWORDS) : Contains(combined, FINANCIAL_KEYWORDS[k])}
         IN  IF hits # {}
             THEN LET first == CHOOSE k \in hits : \A j \in hits : k <= j IN
                  Violation(<<"n","e","v","e","r","_","t","a","k","e","_","f","i","n","a","n","c","i","a","l","_","a","c","t","i","o","n","s",":"," ","O","u","t","g","o","i","n","g"," ","m","e","s","s","a","g","e"," ","r","e","f","e","r","e","n","c","e","s"," ","f","i","n","a","n","c","i","a","l"," ","a","c","t","i","o","n"," ","'">>
                            \o FINANCIAL_KEYWORDS[first]
                            \o <<"'","."," ","A","g","e","n","t"," ","c","a","n","n","o","t"," ","c","o","m","m","i","t"," ","t","o"," ","f","i","n","a","n","c","i","a","l"," ","t","r","a","n","s","a","c","t","i","o","n","s"," ","-"," ","e","s","c","a","l","a","t","e"," ","t","o"," ","h","u","m","a","n",".">>)
             ELSE None

\* _check_impersonation without body.lower().
check_impersonation_case_sensitive(action, params) ==
    IF action \notin {"send_email", "reply_to_email", "create_draft"} THEN None
    ELSE IF \E k \in 1..Len(impersonation_phrases) :
                Contains(params.body, impersonation_phrases[k])
         THEN Violation(HARD_RULES[6] \o <<":"," ","O","u","t","g","o","i","n","g"," ","m","e","s","s","a","g","e"," ","c","o","n","t","a","i","n","s"," ","i","m","p","e","r","s","o","n","a","t","i","o","n"," ","p","h","r","a","s","e",".">>)
         ELSE None

check_impersonation(action, params) ==
    IF action \notin {"send_email", "reply_to_email", "create_draft"} THEN None
    ELSE LET body == Lower(params.body)
             hits == {k \in 1..Len(impersonation_phrases) : Contains(body, impersonation_phrases[k])}
         IN  IF hits # {}
             THEN LET first == CHOOSE k \in hits : \A j \in hits : k <= j IN
                  Violation(<<"n","e","v","e","r","_","i","m","p","e","r","s","o","n","a","t","e",":"," ","O","u","t","g","o","i","n","g"," ","m","e","s","s","a","g","e"," ","c","o","n","t","a","i","n","s"," ","i","m","p","e","r","s","o","n","a","t","i","o","n"," ","p","h","r","a","s","e"," ","'">>
                            \o impersonation_phrases[first]
                            \o <<"'","."," ","T","h","e"," ","a","g","e","n","t"," ","m","u","s","t"," ","n","o","t"," ","r","e","p","r","e","s","e","n","t"," ","i","t","s","e","l","f"," ","a","s"," ","a"," ","h","u","m","a","n"," ","a","u","t","h","o","r","i","t","y"," ","f","i","g","u","r","e",".">>)
             ELSE None

\* A denial: (False, reason).  Allowed: (True, "").
Denied(violation) == [allowed |-> FALSE, reason |-> violation.reason]
Allowed == [allowed |-> TRUE, reason |-> << >>]

\* check_action with the impersonation check moved before the financial one.
check_action_impersonation_first(action, params, count) ==
    LET v1 == check_daily_limit(count) IN
    IF v1.violated THEN Denied(v1) ELSE
    LET v2 == check_permanent_deletion(action) IN
    IF v2.violated THEN Denied(v2) ELSE
    LET v3 == check_mass_email(action, params) IN
    IF v3.violated THEN Denied(v3) ELSE
    LET v4 == check_credential_leakage(action, params) IN
    IF v4.violated THEN Denied(v4) ELSE
    LET v5 == check_spam_reply(action, params) IN
    IF v5.violated THEN Denied(v5) ELSE
    LET v7 == check_impersonation(action, params) IN
    IF v7.violated THEN Denied(v7) ELSE
    LET v6 == check_financial_action(action, params) IN
    IF v6.violated THEN Denied(v6) ELSE
    Allowed

check_action(action, params, count) ==
    LET v1 == check_daily_limit(count) IN
    IF v1.violated THEN Denied(v1) ELSE
    LET v2 == check_permanent_deletion(action) IN
    IF v2.violated THEN Denied(v2) ELSE
    LET v3 == check_mass_email(action, params) IN
    IF v3.violated THEN Denied(v3) ELSE
    LET v4 == check_credential_leakage(action, params) IN
    IF v4.violated THEN Denied(v4) ELSE
    LET v5 == check_spam_reply(action, params) IN
    IF v5.violated THEN Denied(v5) ELSE
    LET v6 == check_financial_action(action, params) IN
    IF v6.violated THEN Denied(v6) ELSE
    LET v7 == check_impersonation(action, params) IN
    IF v7.violated THEN Denied(v7) ELSE
    Allowed

\* The rule taken as the first word of the reason (reason.split(" ")[0]).
RuleOfReasonFirstWord(reason) == Strip(Split(reason, " ")[1])

\* reason.split(":")[0].strip()
RuleOfReason(reason) == Strip(Split(reason, ":")[1])

\* SafetyViolationError(rule, reason)
SafetyViolationError(rule, reason) == [rule |-> rule, reason |-> reason]

\* guard: returns normally (raised FALSE) or raises SafetyViolationError.
NoError == [rule |-> << >>, reason |-> << >>]

guard(action, params, count) ==
    LET v == check_action(action, params, count) IN
    IF ~v.allowed
    THEN [raised |-> TRUE, error |-> SafetyViolationError(RuleOfReason(v.reason), v.reason)]
    ELSE [raised |-> FALSE, error |-> NoError]

(***************************************************************************)
(* The state.                                                              *)
(***************************************************************************)

VARIABLES
    \* memory.short_term.session_memory (one ShortTermMemory per process)
    current_session_emails,   \* email id -> metadata (the sender)
    actions_taken_today,      \* the session action log, a sequence of tool names
    pending_escalations,      \* a sequence of [email_id, reason]
    \* the durable store (memory.long_term)
    sender_profiles,          \* address -> history, a sequence of entries
    action_log,               \* the audit log, a sequence of ActionRecords
    follow_ups,               \* the follow-ups, a sequence indexed by id
    db_sessions,              \* the update_sender_memory calls in flight
    \* scheduler.tasks: the agent_status row, the queued runs of
    \* run_gmailmind_for_user and what each worker process is running
    tasks,
    \* agent.reasoning_loop._daily_summary, a sequence of email ids
    daily_summary,
    \* agent.tool_wrappers.services["gmail"]: whether a service is set
    services,
    \* the last call of a capability (tools.*): who called, the action, the
    \* parameters and how it ended
    last_call,
    \* run_agent_loop: where the loop is and its local variables
    loop,
    \* the last call of the guard: its arguments, the count it read and what
    \* it returned or raised
    gate

session == << current_session_emails, actions_taken_today, pending_escalations >>

durable == << sender_profiles, action_log, follow_ups, db_sessions, tasks >>

process == << daily_summary, services, last_call, loop >>

vars == << current_session_emails, actions_taken_today, pending_escalations,
           sender_profiles, action_log, follow_ups, db_sessions, tasks, daily_summary,
           services,
           last_call, loop, gate >>

\* ShortTermMemory.action_count
action_count == Len(actions_taken_today)

\* A log_action that records every call twice.
log_action_twice(log, tool_used) == Append(Append(log, tool_used), tool_used)

\* ShortTermMemory.log_action: the log after recording one call of tool_used.
log_action(log, tool_used) == Append(log, tool_used)

\* ShortTermMemory.add_email: the seen-items map after registering email_id.
add_email(emails, email_id, sender) ==
    [id \in DOMAIN emails \cup {email_id} |->
        IF id = email_id THEN sender ELSE emails[id]]

\* ShortTermMemory.add_escalation
add_escalation(escalations, email_id, reason) ==
    Append(escalations, [email_id |-> email_id, reason |-> reason])

\* ShortTermMemory.__init__ and ShortTermMemory.reset
EmptyEmails == [id \in {} |-> ""]

NoCall ==
    [kind |-> "none", action |-> "", params |-> << >>, count |-> 0,
     allowed |-> TRUE, reason |-> << >>, raised |-> FALSE, error |-> NoError]


\* A SenderProfileUpdate without a history_entry.
NoEntry == [action |-> "", email_id |-> "", note |-> ""]

\* memory.long_term.update_sender_memory: the profiles after the upsert.  A
\* new profile starts with the entry, if one is supplied, as its history.
\* For a known sender a supplied entry is appended in place to the loaded
\* list (an empty history is replaced by a new list) and the same list is
\* assigned back to the attribute: the ORM writes the column only if it
\* detects the change of the JSONB value, which an in-place mutation does
\* not guarantee.
update_sender_memory(profiles, email, history_entry, detected) ==
    [a \in DOMAIN profiles \cup {email} |->
        IF a = email
        THEN IF email \notin DOMAIN profiles
             THEN IF history_entry = NoEntry THEN << >> ELSE << history_entry >>
             ELSE IF history_entry = NoEntry
             THEN profiles[email]
             ELSE IF profiles[email] = << >>
             THEN << history_entry >>
             ELSE IF detected
             THEN Append(profiles[email], history_entry)
             ELSE profiles[email]
        ELSE profiles[a]]

\* memory.long_term.log_action: the audit log after the insert.
persist_action(log, record) == Append(log, record)

NoProfiles == [a \in {} |-> << >>]

\* The callers of the store that can run at the same time.
Callers == {"p1", "p2"}

\* No update_sender_memory call is in flight.
NoSessions == [p \in Callers |-> [phase |-> "idle"]]

\* A worker process that runs no task.
WorkerIdle ==
    [task |-> "", pc |-> "idle", failed |-> FALSE, followups |-> << >>, item |-> 0]

\* Before any task is dispatched: no agent_status row, an empty queue and
\* idle workers.
NoTasks == [agent_status |-> "none", queued |-> 0,
            workers |-> [p \in Callers |-> WorkerIdle]]

\* A FollowUpUpdate without a status.
NoStatus == "none"

\* An update that leaves the status as it was.
update_follow_up_keeping_status(fus, follow_up_id, status) == fus

\* memory.long_term.update_follow_up with a status: the follow-ups after the
\* update of follow_up_id (an unknown id changes nothing).
update_follow_up(fus, follow_up_id, status) ==
    IF follow_up_id \in DOMAIN fus /\ status # NoStatus
    THEN [fus EXCEPT ![follow_up_id].status = status]
    ELSE fus

\* What update_follow_up returns: the row, or None when the id is unknown.
update_follow_up_returns(fus, follow_up_id) ==
    IF follow_up_id \in DOMAIN fus THEN "row" ELSE "None"

\* memory.long_term.create_follow_up: a new pending follow-up, not yet due.
create_follow_up(fus, email_id, sender) ==
    Append(fus, [email_id |-> email_id, sender |-> sender,
                 status |-> "pending", due |-> FALSE])

\* No item in processing.
NoItem == [email_id |-> "", sender |-> "", id |-> 0]

\* The operators whose loops a process runs: the user_id of run_agent_loop.
Operators == {"default", "u2"}

\* The session action count the guard reads for the loop of an operator:
\* session_memory is one object per process, whoever the operator is.
SessionCountOf(user_id) == action_count

\* The loop before run_agent_loop is called.  returned is the outcome the
\* last processed item ended with and raised the exception that left
\* Runner.run for it; caught is the exception the last iteration's own
\* except clause caught ("fetch" from OBSERVE, "store" from a store call).
LoopIdle ==
    [pc |-> "idle", user_id |-> "", single_run |-> FALSE, cycles |-> 0, fetched |-> 0,
     emails |-> << >>,
     followups |-> << >>, item |-> NoItem, sender_history |-> << >>,
     tool_calls |-> 0, returned |-> "", raised |-> "", caught |-> ""]

\* No capability has been called.
NoCapability == [path |-> "none", action |-> "", params |-> << >>, outcome |-> "none"]
(***************************************************************************)
(* The arguments the guard is called with.                                 *)
(***************************************************************************)

TextHi == <<"h","i">>
\* the reply body of the CEO scenario
TextCeoWire == <<"I"," ","a","m"," ","t","h","e"," ","C","E","O",","," ","w","i","r","e"," ","t","h","e"," ","f","u","n","d","s"," ","n","o","w">>
\* tests/test_safety.py, test_financial_and_impersonation
TextCeoTransfer == <<"I"," ","a","m"," ","t","h","e"," ","C","E","O","."," ","P","r","o","c","e","s","s"," ","t","h","e"," ","w","i","r","e"," ","t","r","a","n","s","f","e","r"," ","n","o","w",".">>
\* tests/test_safety.py, test_password_in_body_blocked
TextPassword == <<"Y","o","u","r"," ","p","a","s","s","w","o","r","d",":"," ","s","e","c","r","e","t","1","2","3">>
\* a credential and a financial phrase at once
TextTokenPay == <<"t","o","k","e","n","=","a","b","c"," ","p","a","y"," ","n","o","w">>
TextPayment == <<"P","a","y","m","e","n","t">>

Bodies == {TextHi, TextCeoWire, TextCeoTransfer, TextPassword, TextTokenPay}
Subjects == {TextHi, TextPayment}

\* tests/test_safety.py, test_reply_to_spam_blocked
SpamContext ==
    [keys |-> {"subject", "body", "sender"},
     subject |-> <<"W","I","N"," ","a"," ","F","R","E","E"," ","l","o","t","t","e","r","y"," ","p","r","i","z","e"," ","n","o","w","!">>,
     body |-> <<"C","l","i","c","k"," ","h","e","r","e"," ","t","o"," ","c","l","a","i","m"," ","y","o","u","r"," ","m","i","l","l","i","o","n"," ","d","o","l","l","a","r","s"," ","i","n","h","e","r","i","t","a","n","c","e">>,
     snippet |-> NoText,
     sender |-> [dict |-> TRUE, val |-> <<"n","o","r","e","p","l","y","@","s","p","a","m",".","c","o","m">>],
     from |-> NoText]

\* tests/test_safety.py, test_reply_to_normal_allowed
NormalContext ==
    [keys |-> {"subject", "body"},
     subject |-> <<"M","e","e","t","i","n","g"," ","t","o","m","o","r","r","o","w">>,
     body |-> <<"L","e","t","'","s"," ","d","i","s","c","u","s","s"," ","t","h","e"," ","p","r","o","j","e","c","t",".">>,
     snippet |-> NoText,
     sender |-> [dict |-> FALSE, val |-> NoText],
     from |-> NoText]

\* tests/test_safety.py, test_single_pattern_not_spam: one pattern only
OnePatternContext ==
    [keys |-> {"subject", "body"},
     subject |-> <<"P","l","e","a","s","e"," ","u","n","s","u","b","s","c","r","i","b","e"," ","m","e">>,
     body |-> <<"T","h","a","n","k","s">>,
     snippet |-> NoText,
     sender |-> [dict |-> FALSE, val |-> NoText],
     from |-> NoText]

\* tests/test_safety.py, test_from_key_supported: the sender under "from"
FromContext ==
    [keys |-> {"from", "subject"},
     subject |-> <<"W","I","N"," ","a"," ","F","R","E","E"," ","c","a","s","h"," ","p","r","i","z","e">>,
     body |-> NoText,
     snippet |-> NoText,
     sender |-> [dict |-> FALSE, val |-> NoText],
     from |-> <<"n","o","r","e","p","l","y","@","x",".","c","o","m">>]

Contexts == {EmptyContext, NormalContext, OnePatternContext, SpamContext, FromContext}

Address == <<"u","@","x">>

\* n addresses joined by commas, as a str: "u@x,u@x,...".
AddressString(n) ==
    [i \in 1..(n * (Len(Address) + 1) - 1) |->
        IF i % (Len(Address) + 1) = 0 THEN "," ELSE Address[i % (Len(Address) + 1)]]

ToStr(n) == [kind |-> "str", str |-> AddressString(n), list |-> << >>]
ToList(n) == [kind |-> "list", str |-> NoText, list |-> [i \in 1..n |-> Address]]
\* a str with blanks around the addresses and empty pieces between commas
ToPadded(n) ==
    [kind |-> "str", str |-> <<" ",","," ">> \o AddressString(n) \o <<" ",",",","," ">>, list |-> << >>]
\* neither a str nor a list (None)
ToNone == [kind |-> "other", str |-> NoText, list |-> << >>]

\* How far past MAX_RECIPIENTS_PER_SEND the recipient counts go.
RecipientsOver == 2

RecipientCounts == 0..(MAX_RECIPIENTS_PER_SEND + RecipientsOver)

\* Every recipient count in both encodings, the rest of the message plain.
SweepParams ==
    {[to |-> t, subject |-> TextHi, body |-> TextHi, email_context |-> EmptyContext] :
        t \in {ToStr(n) : n \in RecipientCounts} \cup {ToList(n) : n \in RecipientCounts}
              \cup {ToPadded(MAX_RECIPIENTS_PER_SEND), ToPadded(MAX_RECIPIENTS_PER_SEND + 1), ToNone}}

\* Messages that violate several rules at once.
CrossParams ==
    [to : {ToStr(1), ToStr(MAX_RECIPIENTS_PER_SEND + 1)},
     subject : Subjects, body : Bodies, email_context : {EmptyContext, SpamContext}]

\* A plain reply to each original message.
ContextParams ==
    {[to |-> ToNone, subject |-> NoText, body |-> TextHi, email_context |-> c] :
        c \in Contexts}

GateActions ==
    {"send_email", "create_draft", "reply_to_email", "label_email"}
        \cup DESTRUCTIVE_ACTIONS

GateCalls ==
    (GateActions \X CrossParams) \cup ({"reply_to_email"} \X ContextParams)

MassCalls == {"send_email", "create_draft"} \X SweepParams

(***************************************************************************)
(* The autonomous cycle: run_agent_loop, the tool wrappers the decision    *)
(* procedure calls while it runs, and the send_daily_report task.          *)
(***************************************************************************)

\* Iterations of the loop a behaviour goes through.
MaxCycles == 2
\* Tool calls the decision procedure makes for one item.
MaxToolCalls == 2
\* Follow-ups the store holds.
MaxFollowUps == 1
\* Emails the inbox delivers in a behaviour.
MaxEmails == 2

\* The sender of each email the inbox can hold.
SenderOf(email_id) == IF email_id = "m1" THEN "s1" ELSE "s2"

\* What _fetch_new_emails can return: the unread emails, in order.
Inboxes == { << >>, << "m1" >>, << "m1", "m2" >> }

\* The item of an inbound email.
EmailItem(email_id) == [email_id |-> email_id, sender |-> SenderOf(email_id), id |-> 0]

\* The item of the follow-up with the given id.
FollowUpItem(id) ==
    [email_id |-> follow_ups[id].email_id, sender |-> follow_ups[id].sender, id |-> id]

\* A message with one recipient and a plain subject.
PlainMessage(body) ==
    [to |-> ToStr(1), subject |-> TextHi, body |-> body, email_context |-> EmptyContext]

\* The wrapper calls the decision procedure can make for an item: a plain
\* send, a send the guard denies, a CRM note on the item's sender and a
\* follow-up on the item's email.
ToolRequests(item) ==
    { [action |-> "send_email", params |-> PlainMessage(TextHi)],
      [action |-> "send_email", params |-> PlainMessage(TextCeoWire)],
      [action |-> "update_crm",
       params |-> [email |-> item.sender, action |-> "note_added"]],
      [action |-> "schedule_followup",
       params |-> [email_id |-> item.email_id, sender_email |-> item.sender]] }

AllToolRequests ==
    UNION {ToolRequests(EmailItem(email_id)) : email_id \in {"m1", "m2"}}

\* safety_guard.guard on every request at every count, evaluated once.
GuardTable ==
    [r \in AllToolRequests, n \in 0..(DAILY_ACTION_LIMIT + 1) |->
        guard(r.action, r.params, n)]

\* The call of guard a wrapper makes for request r, as the gate records
\* it; g is what guard returned or raised.
GuardCall(r, g) ==
    [kind |-> "guard", action |-> r.action, params |-> r.params,
     count |-> action_count, allowed |-> ~g.raised, reason |-> g.error.reason,
     raised |-> g.raised, error |-> g.error]

\* str(exc) of a SafetyViolationError (the hyphen stands for the source's
\* em dash).
ErrorText(error) ==
    <<"[","S","A","F","E","T","Y"," ","V","I","O","L","A","T","I","O","N"," ","-"," ">> \o error.rule \o <<"]"," ">> \o error.reason

\* The email of the daily report, as send_daily_report sends it.
ReportParams ==
    [to |-> ToStr(1), subject |-> <<"G","m","a","i","l","M","i","n","d"," ","D","a","i","l","y"," ","R","e","p","o","r","t">>,
     body |-> <<"G","m","a","i","l","M","i","n","d"," ","D","a","i","l","y"," ","S","u","m","m","a","r","y">>, email_context |-> EmptyContext]

\* The outcome texts of an item, by their prefix.
Ok == "ok"
SafetyBlock == "[SAFETY BLOCK]"
Error == "[ERROR]"

\* The pending follow-ups that are due, as _fetch_due_followups returns them.
DueFollowUps ==
    SelectSeq([i \in 1..Len(follow_ups) |-> i],
              LAMBDA i : follow_ups[i].status = "pending" /\ follow_ups[i].due)

\* The history of a sender's profile, empty when there is none.
HistoryOf(profiles, sender) ==
    IF sender \in DOMAIN profiles THEN profiles[sender] ELSE << >>

\* _update_memory_after_action, the profile upsert: one "processed" entry.
RememberProfile(profiles, item, outcome, detected) ==
    update_sender_memory(profiles, item.sender,
        [action |-> "processed", email_id |-> item.email_id, note |-> outcome],
        detected)

\* _update_memory_after_action, the audit insert: one ActionRecord.
RememberAction(log, item, outcome) ==
    persist_action(log, [email_from |-> item.sender,
                         tool_used |-> "gmailmind_agent", outcome |-> outcome])

\* A start that injects the services before it finds the credentials
\* missing.
StartLoopInjectingFirst ==
    /\ loop.pc \in {"idle", "done", "failed"}
    /\ loop.cycles < MaxCycles
    /\ services' = TRUE
    /\ \E user_id \in Operators, single_run \in BOOLEAN, built \in BOOLEAN :
         loop' = [loop EXCEPT !.pc = IF built THEN "observe" ELSE "failed",
                              !.caught = "", !.user_id = user_id,
                              !.single_run = single_run]
    /\ UNCHANGED << session, durable, daily_summary, last_call, gate >>

\* The processed emails a run of an operator reports: _daily_summary is one
\* list per process, whoever the operator is.
SummaryOf(user_id) == daily_summary

\* run_agent_loop up to the loop: the services are built and injected, or
\* _build_gmail_service raises RuntimeError and the call ends.
StartLoop ==
    /\ loop.pc \in {"idle", "done", "failed"}
    /\ loop.cycles < MaxCycles
    /\ \E user_id \in Operators, single_run \in BOOLEAN, built \in BOOLEAN :
         IF built
         THEN /\ services' = TRUE
              /\ loop' = [loop EXCEPT !.pc = "observe", !.caught = "",
                                      !.user_id = user_id,
                                      !.single_run = single_run]
         ELSE /\ services' = services
              /\ loop' = [loop EXCEPT !.pc = "failed", !.caught = ""]
    /\ UNCHANGED << session, durable, daily_summary, last_call, gate >>

\* OBSERVE: the unread emails and the due follow-ups, or an exception of
\* one of the fetches, which ends the iteration.
Observe ==
    /\ loop.pc = "observe"
    /\ \/ \E inbox \in Inboxes :
            /\ loop.fetched + Len(inbox) <= MaxEmails
            /\ loop' = [loop EXCEPT !.pc = "emails", !.caught = "", !.cycles = @ + 1,
                                    !.fetched = @ + Len(inbox),
                                    !.emails = inbox, !.followups = DueFollowUps]
       \/ loop' = [loop EXCEPT !.pc = "sleep", !.caught = "fetch", !.cycles = @ + 1]
    /\ UNCHANGED << session, durable, daily_summary, services, last_call, gate >>

\* The head of the email loop and _process_single_email up to Runner.run.
NextEmail ==
    /\ loop.pc = "emails"
    /\ IF loop.emails = << >>
       THEN /\ loop' = [loop EXCEPT !.returned = "", !.raised = "",
                             !.pc = "followups"]
            /\ UNCHANGED session
       ELSE IF is_daily_limit_exceeded(action_count)
       THEN /\ pending_escalations' =
                 add_escalation(pending_escalations, "SYSTEM",
                     <<"D","a","i","l","y"," ","a","c","t","i","o","n"," ","l","i","m","i","t"," ","e","x","c","e","e","d","e","d","."," ","R","e","m","a","i","n","i","n","g"," ","e","m","a","i","l","s"," ","s","k","i","p","p","e","d",".">>)
            \* break: the emails that are left are not looked at
            /\ loop' = [loop EXCEPT !.returned = "", !.raised = "",
                             !.pc = "followups"]
            /\ UNCHANGED << current_session_emails, actions_taken_today >>
       ELSE LET email_id == Head(loop.emails) IN
            /\ current_session_emails' =
                 add_email(current_session_emails, email_id, SenderOf(email_id))
            /\ \/ loop' = [loop EXCEPT !.returned = "", !.raised = "",
                             !.pc = "think", !.emails = Tail(@),
                             !.item = EmailItem(email_id),
                             !.sender_history = HistoryOf(sender_profiles, SenderOf(email_id)),
                             !.tool_calls = 0]
               \* get_sender_memory or get_pending_follow_ups raises
               \/ loop' = [loop EXCEPT !.returned = "", !.raised = "",
                             !.pc = "sleep", !.caught = "store", !.emails = << >>]
            /\ UNCHANGED << actions_taken_today, pending_escalations >>
    /\ UNCHANGED << durable, daily_summary, services, last_call, gate >>

\* The head of the follow-up loop and _process_due_followup up to
\* Runner.run; REPORT when the loop is over.
NextFollowUp ==
    /\ loop.pc = "followups"
    /\ IF loop.followups = << >> \/ is_daily_limit_exceeded(action_count)
       THEN loop' = [loop EXCEPT !.returned = "", !.raised = "",
                             !.pc = "sleep", !.followups = << >>]
       ELSE \/ loop' = [loop EXCEPT !.returned = "", !.raised = "",
                             !.pc = "think_fu", !.followups = Tail(@),
                          !.item = FollowUpItem(Head(loop.followups)),
                          !.sender_history = HistoryOf(sender_profiles,
                              follow_ups[Head(loop.followups)].sender),
                          !.tool_calls = 0]
            \* get_sender_memory raises
            \/ loop' = [loop EXCEPT !.returned = "", !.raised = "",
                             !.pc = "sleep", !.caught = "store", !.followups = << >>]
    /\ UNCHANGED << session, durable, daily_summary, services, last_call, gate >>

\* The Celery task process_due_followups in the process of the loop, between
\* two calls of run_agent_loop: the pending follow-ups that are due are
\* read and the agent is created. (A run that finds none due, or whose
\* read raises, returns and changes nothing.)
ProcessDueFollowups ==
    /\ loop.pc = "done"
    /\ DueFollowUps # << >>
    /\ loop' = [loop EXCEPT !.pc = "task_followups", !.followups = DueFollowUps]
    /\ UNCHANGED << session, durable, daily_summary, services, last_call, gate >>

\* The for loop of process_due_followups: every due follow-up is handed to
\* _process_due_followup, with no look at the daily limit; an exception of
\* the call is caught and the next follow-up is taken.
ProcessDueFollowupsNext ==
    /\ loop.pc = "task_followups"
    /\ IF loop.followups = << >>
       THEN loop' = [loop EXCEPT !.pc = "done"]
       ELSE \/ loop' = [loop EXCEPT !.pc = "task_think", !.followups = Tail(@),
                          !.item = FollowUpItem(Head(loop.followups)),
                          !.sender_history = HistoryOf(sender_profiles,
                              follow_ups[Head(loop.followups)].sender),
                          !.tool_calls = 0]
            \* get_sender_memory raises
            \/ loop' = [loop EXCEPT !.followups = Tail(@)]
    /\ UNCHANGED << session, durable, daily_summary, services, last_call, gate >>

Thinking == loop.pc \in {"think", "think_fu", "task_think"}

\* The except clauses of _process_single_email: a SafetyViolationError is a
\* safety block, every other exception an error; exc is the class of the
\* exception that left Runner.run, "" when it returned.
EmailOutcome(exc) ==
    IF exc = "" THEN Ok
    ELSE IF exc = "SafetyViolationError" THEN SafetyBlock
    ELSE Error

\* The one except clause of _process_due_followup: every exception, a
\* SafetyViolationError too, is an error.
FollowUpOutcome(exc) ==
    IF exc = "" THEN Ok ELSE Error

\* _process_single_email from the end of Runner.run: the escalation of a
\* safety block, then REMEMBER and the daily summary.  A store write that
\* raises ends the iteration.
FinishEmail(exc, error) ==
    LET outcome == EmailOutcome(exc) IN
    /\ pending_escalations' =
         IF outcome = SafetyBlock
         THEN add_escalation(pending_escalations, loop.item.email_id, ErrorText(error))
         ELSE pending_escalations
    /\ \E profile_written, action_written, detected \in BOOLEAN :
         /\ action_written => profile_written
         /\ sender_profiles' =
              IF profile_written
              THEN RememberProfile(sender_profiles, loop.item, outcome, detected)
              ELSE sender_profiles
         /\ action_log' =
              IF action_written
              THEN RememberAction(action_log, loop.item, outcome)
              ELSE action_log
         /\ daily_summary' =
              IF action_written
              THEN Append(daily_summary, loop.item.email_id)
              ELSE daily_summary
         /\ loop' =
              IF action_written
              THEN [loop EXCEPT !.pc = "emails", !.item = NoItem,
                                !.sender_history = << >>, !.tool_calls = 0,
                                !.returned = outcome, !.raised = exc]
              ELSE [loop EXCEPT !.pc = "sleep", !.caught = "store",
                                !.item = NoItem, !.emails = << >>,
                                !.followups = << >>,
                                !.sender_history = << >>, !.tool_calls = 0]
    /\ UNCHANGED << current_session_emails, follow_ups, db_sessions, tasks, services >>

\* _process_due_followup from the end of Runner.run: the follow-up is
\* marked completed.  A store write that raises ends the iteration.
FinishFollowUp(exc) ==
    LET outcome == FollowUpOutcome(exc) IN
    /\ \E written \in BOOLEAN :
         /\ follow_ups' =
              IF written
              THEN update_follow_up(follow_ups, loop.item.id, "completed")
              ELSE follow_ups
         /\ loop' =
              IF written
              THEN [loop EXCEPT !.pc = "followups", !.item = NoItem,
                                !.sender_history = << >>, !.tool_calls = 0,
                                !.returned = outcome, !.raised = exc]
              ELSE [loop EXCEPT !.pc = "sleep", !.caught = "store",
                                !.item = NoItem, !.followups = << >>,
                                !.sender_history = << >>, !.tool_calls = 0]
    /\ UNCHANGED << current_session_emails, pending_escalations, sender_profiles,
                    db_sessions, tasks, action_log, daily_summary, services >>

\* The end of _process_due_followup when process_due_followups called it:
\* the follow-up is marked completed, and an exception of the write is
\* caught by the task's for loop.
FinishTaskFollowUp(exc) ==
    /\ \E written \in BOOLEAN :
         follow_ups' =
             IF written
             THEN update_follow_up(follow_ups, loop.item.id, "completed")
             ELSE follow_ups
    /\ loop' = [loop EXCEPT !.pc = "task_followups", !.item = NoItem,
                            !.sender_history = << >>, !.tool_calls = 0]
    /\ UNCHANGED << current_session_emails, pending_escalations, sender_profiles,
                    db_sessions, tasks, action_log, daily_summary, services >>

\* A loop in which an exception that leaves Runner.run is not caught by the
\* item's except clauses and reaches the iteration's.
FinishAbortingOnException(exc, error) ==
    IF exc = ""
    THEN IF loop.pc = "think"
         THEN FinishEmail(exc, error)
         ELSE IF loop.pc = "think_fu"
              THEN FinishFollowUp(exc)
              ELSE FinishTaskFollowUp(exc)
    ELSE /\ loop' = [loop EXCEPT !.pc = "sleep", !.caught = "agent",
                                 !.item = NoItem, !.emails = << >>,
                                 !.followups = << >>,
                                 !.sender_history = << >>, !.tool_calls = 0]
         /\ UNCHANGED << current_session_emails, pending_escalations, durable,
                         daily_summary, services >>

\* The end of Runner.run for the item in processing; exc is the exception
\* that left it, "" when it returned.
Finish(exc, error) ==
    IF loop.pc = "think"
    THEN FinishEmail(exc, error)
    ELSE IF loop.pc = "think_fu"
         THEN FinishFollowUp(exc)
         ELSE FinishTaskFollowUp(exc)


\* A tool wrapper whose guard allows the call and whose capability
\* returns: guard, the capability, _log.
ToolCallReturns ==
    /\ Thinking
    /\ loop.tool_calls < MaxToolCalls
    /\ \E r \in ToolRequests(loop.item), written, detected \in BOOLEAN :
         /\ r.action = "schedule_followup" => Len(follow_ups) < MaxFollowUps
         /\ written = FALSE => r.action \in {"update_crm", "schedule_followup"}
         /\ LET g == GuardTable[r, action_count] IN
              /\ ~g.raised
              /\ gate' = GuardCall(r, g)
         /\ last_call' = [path |-> "tool_wrappers", action |-> r.action,
                          params |-> r.params, outcome |-> "done"]
         \* crm_tools._update_local_contact; a store error is swallowed
         /\ sender_profiles' =
              IF r.action = "update_crm" /\ written
              THEN update_sender_memory(sender_profiles, r.params.email,
                       [action |-> r.params.action, email_id |-> "", note |-> ""],
                       detected)
              ELSE sender_profiles
         \* calendar_tools.schedule_followup; a store error is swallowed
         /\ follow_ups' =
              IF r.action = "schedule_followup" /\ written
              THEN create_follow_up(follow_ups, r.params.email_id, r.params.sender_email)
              ELSE follow_ups
         /\ actions_taken_today' = log_action(actions_taken_today, r.action)
    /\ loop' = [loop EXCEPT !.tool_calls = @ + 1]
    /\ UNCHANGED << current_session_emails, pending_escalations, action_log, db_sessions, tasks,
                    daily_summary, services >>

\* How a wrapper call that does not return ends: the guard raises, or the
\* guard allows the call and the mail capability raises.
FailedCall(r, g) ==
    [path |-> "tool_wrappers", action |-> r.action, params |-> r.params,
     outcome |-> IF g.raised THEN "denied" ELSE "raised"]

CanFail(r, g) == g.raised \/ r.action = "send_email"

\* A wrapper call that raises, the exception handed to the decision
\* procedure as the result of the tool call.
ToolCallFails ==
    /\ Thinking
    /\ loop.tool_calls < MaxToolCalls
    /\ \E r \in ToolRequests(loop.item) :
         LET g == GuardTable[r, action_count] IN
         /\ CanFail(r, g)
         /\ gate' = GuardCall(r, g)
         /\ last_call' = FailedCall(r, g)
    /\ loop' = [loop EXCEPT !.tool_calls = @ + 1]
    /\ UNCHANGED << session, durable, daily_summary, services >>

\* A wrapper call that raises, the exception leaving Runner.run.
ToolCallRaises ==
    /\ Thinking
    /\ loop.tool_calls < MaxToolCalls
    /\ \E r \in ToolRequests(loop.item) :
         LET g == GuardTable[r, action_count] IN
         /\ CanFail(r, g)
         /\ gate' = GuardCall(r, g)
         /\ last_call' = FailedCall(r, g)
         /\ IF g.raised
            THEN Finish("SafetyViolationError", g.error)
            ELSE Finish("Exception", NoError)
    /\ UNCHANGED actions_taken_today

\* Runner.run returns the final output.
RunnerReturns ==
    /\ Thinking
    /\ Finish("", NoError)
    /\ UNCHANGED << actions_taken_today, last_call, gate >>

\* Runner.run raises an exception of its own (the model API fails).
RunnerRaises ==
    /\ Thinking
    /\ Finish("Exception", NoError)
    /\ UNCHANGED << actions_taken_today, last_call, gate >>

\* A loop that an exception caught in the iteration ends.
SleepEndingAfterError ==
    /\ loop.pc = "sleep"
    /\ IF loop.single_run \/ loop.caught # ""
       THEN loop' = [loop EXCEPT !.pc = "done"]
       ELSE /\ loop.cycles < MaxCycles
            /\ loop' = [loop EXCEPT !.pc = "observe"]
    /\ UNCHANGED << session, durable, daily_summary, services, last_call, gate >>

\* A loop that sleeps and goes round in a single run too.
SleepIgnoringSingleRun ==
    /\ loop.pc = "sleep"
    /\ loop.cycles < MaxCycles
    /\ loop' = [loop EXCEPT !.pc = "observe"]
    /\ UNCHANGED << session, durable, daily_summary, services, last_call, gate >>

\* A loop that starts every iteration with an empty daily summary.
SleepClearingSummary ==
    /\ loop.pc = "sleep"
    /\ IF loop.single_run
       THEN loop' = [loop EXCEPT !.pc = "done"]
       ELSE /\ loop.cycles < MaxCycles
            /\ loop' = [loop EXCEPT !.pc = "observe"]
    /\ daily_summary' = << >>
    /\ UNCHANGED << session, durable, services, last_call, gate >>

\* SLEEP: a single run returns, a continuous one starts the next iteration.
Sleep ==
    /\ loop.pc = "sleep"
    /\ IF loop.single_run
       THEN loop' = [loop EXCEPT !.pc = "done"]
       ELSE /\ loop.cycles < MaxCycles
            /\ loop' = [loop EXCEPT !.pc = "observe"]
    /\ UNCHANGED << session, durable, daily_summary, services, last_call, gate >>

\* Time passes: a pending follow-up becomes due.
TimePasses ==
    /\ \E id \in DOMAIN follow_ups :
         /\ follow_ups[id].status = "pending"
         /\ ~follow_ups[id].due
         /\ follow_ups' = [follow_ups EXCEPT ![id].due = TRUE]
    /\ UNCHANGED << session, sender_profiles, action_log, db_sessions, tasks, process, gate >>

\* scheduler.tasks.send_daily_report, run by the worker between two runs of
\* the loop: it reads the audit log, sends the report with
\* tools.gmail_tools.send_email and resets the daily summary.
SendDailyReport ==
    /\ loop.pc \in {"idle", "done", "failed"}
    /\ \E read, owner_email, sent \in BOOLEAN :
         IF ~read
         THEN UNCHANGED << last_call, daily_summary >>
         ELSE /\ last_call' =
                   IF owner_email /\ services
                   THEN [path |-> "send_daily_report", action |-> "send_email",
                         params |-> ReportParams,
                         outcome |-> IF sent THEN "done" ELSE "raised"]
                   ELSE last_call
              /\ daily_summary' = << >>
    /\ UNCHANGED << session, durable, services, loop, gate >>

Init ==
    /\ current_session_emails = EmptyEmails
    /\ actions_taken_today = << >>
    /\ pending_escalations = << >>
    /\ sender_profiles = NoProfiles
    /\ action_log = << >>
    /\ follow_ups = << >>
    /\ db_sessions = NoSessions
    /\ tasks = NoTasks
    /\ daily_summary = << >>
    /\ services = FALSE
    /\ last_call = NoCapability
    /\ loop = LoopIdle
    /\ gate = NoCall

Next ==
    \/ StartLoop
    \/ Observe
    \/ NextEmail
    \/ NextFollowUp
    \/ ToolCallReturns
    \/ ToolCallFails
    \/ ToolCallRaises
    \/ RunnerReturns
    \/ RunnerRaises
    \/ Sleep
    \/ TimePasses
    \/ SendDailyReport

Spec == Init /\ [][Next]_vars

\* The loop with a sleep that ends: asyncio.sleep(POLL_INTERVAL_SECONDS)
\* returns after the interval.
SpecLive == Spec /\ WF_vars(Sleep)

\* The Celery task run_gmailmind_for_user as the beat schedule sends it:
\* run_agent_loop for the operator "default" with single_run=True.
RunGmailmindForUser ==
    /\ StartLoop
    /\ loop'.pc = "observe" => (loop'.single_run /\ loop'.user_id = "default")

\* A Celery worker process of the queues agent and followups: it runs the
\* tasks the beat schedule sends it, one after another.
WorkerNext ==
    \/ RunGmailmindForUser
    \/ Observe
    \/ NextEmail
    \/ NextFollowUp
    \/ ProcessDueFollowups
    \/ ProcessDueFollowupsNext
    \/ ToolCallReturns
    \/ ToolCallFails
    \/ ToolCallRaises
    \/ RunnerReturns
    \/ RunnerRaises
    \/ Sleep
    \/ TimePasses

SpecWorker == Init /\ [][WorkerNext]_vars
(***************************************************************************)
(* SpecGate: the guard called with every argument of GateCalls, in every   *)
(* state of a session that the ShortTermMemory operations produce.         *)
(***************************************************************************)

\* The session tool name SpecGate logs.
GateTool == "read_emails"
GateEmailId == "m1"

\* The session and the durable store as one value, and the step that makes
\* them s.
GuardedState ==
    [emails |-> current_session_emails, actions |-> actions_taken_today,
     escalations |-> pending_escalations, profiles |-> sender_profiles,
     audit |-> action_log, followups |-> follow_ups]

StateBecomes(s) ==
    /\ current_session_emails' = s.emails
    /\ actions_taken_today' = s.actions
    /\ pending_escalations' = s.escalations
    /\ sender_profiles' = s.profiles
    /\ action_log' = s.audit
    /\ follow_ups' = s.followups
    /\ db_sessions' = db_sessions
    /\ tasks' = tasks

\* A check_action that records the evaluated action in the session log.
StateAfterCheckLogged(s, action) == [s EXCEPT !.actions = Append(@, action)]

\* What a call of check_action leaves of the session and the store s: it
\* reads action_count() and writes nothing.
StateAfterCheck(s, action) == s

\* safety_guard.check_action(action, params)
GateCheck ==
    /\ gate.kind = "none"
    /\ \E call \in GateCalls :
        LET action == call[1]
            params == call[2]
            v == check_action(action, params, action_count)
        IN  /\ gate' = [kind |-> "check", action |-> action, params |-> params,
                        count |-> action_count, allowed |-> v.allowed,
                        reason |-> v.reason, raised |-> FALSE, error |-> NoError]
            /\ StateBecomes(StateAfterCheck(GuardedState, action))
            /\ UNCHANGED process

\* safety_guard.guard(action, params)
GateGuard ==
    /\ gate.kind = "none"
    /\ \E call \in GateCalls :
        LET action == call[1]
            params == call[2]
            g == guard(action, params, action_count)
        IN  /\ gate' = [kind |-> "guard", action |-> action, params |-> params,
                        count |-> action_count, allowed |-> ~g.raised,
                        reason |-> g.error.reason, raised |-> g.raised,
                        error |-> g.error]
            /\ StateBecomes(StateAfterCheck(GuardedState, action))
            /\ UNCHANGED process

\* The caller takes what the guard returned or raised.
GateReturn ==
    /\ gate.kind # "none"
    /\ gate' = NoCall
    /\ UNCHANGED << session, durable, process >>

\* session_memory.log_action
SessionLogAction ==
    /\ gate.kind = "none"
    /\ action_count <= DAILY_ACTION_LIMIT
    /\ actions_taken_today' = log_action(actions_taken_today, GateTool)
    /\ gate' = NoCall
    /\ UNCHANGED << current_session_emails, pending_escalations, durable, process >>

\* session_memory.add_email
SessionAddEmail ==
    /\ gate.kind = "none"
    /\ GateEmailId \notin DOMAIN current_session_emails
    /\ current_session_emails' = add_email(current_session_emails, GateEmailId, "s1")
    /\ gate' = NoCall
    /\ UNCHANGED << actions_taken_today, pending_escalations, durable, process >>

\* session_memory.add_escalation
SessionAddEscalation ==
    /\ gate.kind = "none"
    /\ GateEmailId \in DOMAIN current_session_emails
    /\ Len(pending_escalations) < 1
    /\ pending_escalations' = add_escalation(pending_escalations, GateEmailId, <<"f","l","a","g","g","e","d">>)
    /\ gate' = NoCall
    /\ UNCHANGED << current_session_emails, actions_taken_today, durable, process >>

\* session_memory.reset
SessionReset ==
    /\ gate.kind = "none"
    /\ current_session_emails' = EmptyEmails
    /\ actions_taken_today' = << >>
    /\ pending_escalations' = << >>
    /\ gate' = NoCall
    /\ UNCHANGED << durable, process >>

\* reasoning_loop._update_memory_after_action, the store answering: one
\* history entry on the sender's profile and one ActionRecord.
StoreRemember ==
    /\ gate.kind = "none"
    /\ GateEmailId \in DOMAIN current_session_emails
    /\ action_log = << >>
    /\ \E detected \in BOOLEAN :
         sender_profiles' =
           update_sender_memory(sender_profiles, current_session_emails[GateEmailId],
                                [action |-> "processed", email_id |-> GateEmailId,
                                 note |-> "ok"], detected)
    /\ action_log' =
           persist_action(action_log,
                          [email_from |-> current_session_emails[GateEmailId],
                           tool_used |-> "gmailmind_agent", outcome |-> "ok"])
    /\ gate' = NoCall
    /\ UNCHANGED << session, follow_ups, db_sessions, tasks, process >>

GateInit == Init

GateNext ==
    \/ GateCheck
    \/ GateGuard
    \/ GateReturn
    \/ SessionLogAction
    \/ SessionAddEmail
    \/ SessionAddEscalation
    \/ SessionReset
    \/ StoreRemember

SpecGate == GateInit /\ [][GateNext]_vars

(***************************************************************************)
(* SpecMass: check_action called for send_email and create_draft with      *)
(* every recipient count around MAX_RECIPIENTS_PER_SEND, in both encodings.*)
(***************************************************************************)

\* safety_guard.check_action(action, params) with the arguments of MassCalls
MassCheck ==
    /\ gate.kind = "none"
    /\ \E call \in MassCalls :
        LET action == call[1]
            params == call[2]
            v == check_action(action, params, action_count)
        IN  /\ gate' = [kind |-> "check", action |-> action, params |-> params,
                        count |-> action_count, allowed |-> v.allowed,
                        reason |-> v.reason, raised |-> FALSE, error |-> NoError]
            /\ StateBecomes(StateAfterCheck(GuardedState, action))
            /\ UNCHANGED process

MassNext ==
    \/ MassCheck
    \/ GateReturn
    \/ SessionLogAction

SpecMass == GateInit /\ [][MassNext]_vars

(***************************************************************************)
(* SpecStore: the durable store under any sequence of calls of its         *)
(* follow-up and profile operations, one call at a time.                   *)
(***************************************************************************)

\* History entries a profile of SpecStore holds.
MaxHistory == 3

\* The status values a FollowUpUpdate can carry.
FollowUpStatuses == {"pending", "completed", "cancelled", NoStatus}

\* The history entries the callers supply: the one of REMEMBER, the one of
\* a CRM update, or none.
StoreEntries ==
    { [action |-> "processed", email_id |-> "m1", note |-> Ok],
      [action |-> "note_added", email_id |-> "", note |-> ""],
      NoEntry }

\* A call of a store operation and what it returned.
StoreCall(action, params, outcome) ==
    [path |-> "long_term", action |-> action, params |-> params, outcome |-> outcome]

\* create_follow_up
StoreCreateFollowUp ==
    /\ Len(follow_ups) < MaxFollowUps
    /\ \E email_id \in {"m1", "m2"} :
         /\ follow_ups' = create_follow_up(follow_ups, email_id, SenderOf(email_id))
         /\ last_call' = StoreCall("create_follow_up", [email_id |-> email_id], "row")
    /\ UNCHANGED << session, sender_profiles, action_log, db_sessions, tasks,
                    daily_summary, services, loop, gate >>

\* update_follow_up, of a known or an unknown id
StoreUpdateFollowUp ==
    /\ \E follow_up_id \in 1..(MaxFollowUps + 1), status \in FollowUpStatuses :
         /\ follow_ups' = update_follow_up(follow_ups, follow_up_id, status)
         /\ last_call' =
              StoreCall("update_follow_up",
                        [follow_up_id |-> follow_up_id, status |-> status],
                        update_follow_up_returns(follow_ups, follow_up_id))
    /\ UNCHANGED << session, sender_profiles, action_log, db_sessions, tasks,
                    daily_summary, services, loop, gate >>

\* update_sender_memory, with or without a history entry
StoreUpdateSenderMemory ==
    /\ \E email \in {"s1", "s2"}, history_entry \in StoreEntries, detected \in BOOLEAN :
         /\ Len(HistoryOf(sender_profiles, email)) < MaxHistory
         /\ sender_profiles' =
              update_sender_memory(sender_profiles, email, history_entry, detected)
         /\ last_call' =
              StoreCall("update_sender_memory",
                        [email |-> email, history_entry |-> history_entry], "row")
    /\ UNCHANGED << session, action_log, follow_ups, db_sessions, tasks,
                    daily_summary, services, loop, gate >>

StoreNext ==
    \/ StoreCreateFollowUp
    \/ StoreUpdateFollowUp
    \/ StoreUpdateSenderMemory
    \/ TimePasses

SpecStore == Init /\ [][StoreNext]_vars

(***************************************************************************)
(* SpecUpsert: update_sender_memory called by two workers at the same      *)
(* time, each call in a database session of its own (no row lock, the      *)
(* database's default isolation): the SELECT and the commit of a call are  *)
(* separate steps.                                                         *)
(***************************************************************************)

\* The history entry each caller supplies: REMEMBER in one worker, a CRM
\* update in the other.
EntryOf(p) ==
    IF p = "p1"
    THEN [action |-> "processed", email_id |-> "m1", note |-> Ok]
    ELSE [action |-> "note_added", email_id |-> "", note |-> ""]

\* update_sender_memory up to the SELECT: what the session has loaded.
upsert_select(profiles, email, history_entry) ==
    [phase |-> "read", email |-> email, history_entry |-> history_entry,
     found |-> email \in DOMAIN profiles, loaded |-> HistoryOf(profiles, email)]

\* The INSERT of a session that found no profile fails on the unique
\* address when another session has inserted one since.
upsert_conflict(profiles, s) == ~s.found /\ s.email \in DOMAIN profiles

\* update_sender_memory from the SELECT to the commit: the profiles after
\* it.  The INSERT carries the entry; the UPDATE carries the history the
\* session loaded with the entry appended, when the ORM writes the column.
upsert_commit(profiles, s, detected) ==
    IF upsert_conflict(profiles, s)
    THEN profiles
    ELSE [a \in DOMAIN profiles \cup {s.email} |->
            IF a = s.email
            THEN IF ~s.found \/ s.loaded = << >>
                 THEN << s.history_entry >>
                 ELSE IF detected
                 THEN Append(s.loaded, s.history_entry)
                 ELSE profiles[a]
            ELSE profiles[a]]

\* A caller starts update_sender_memory: its session runs the SELECT.
UpsertSelect ==
    /\ \E p \in Callers, email \in {"s1", "s2"} :
         /\ db_sessions[p].phase # "read"
         /\ Len(HistoryOf(sender_profiles, email)) < MaxHistory
         /\ db_sessions' =
              [db_sessions EXCEPT ![p] = upsert_select(sender_profiles, email, EntryOf(p))]
    /\ UNCHANGED << session, sender_profiles, action_log, follow_ups, tasks, process, gate >>

\* A session commits: the row is inserted or updated and the call returns,
\* or the INSERT fails, the session rolls back and the call raises.
UpsertCommit ==
    /\ \E p \in Callers, detected \in BOOLEAN :
         /\ db_sessions[p].phase = "read"
         /\ sender_profiles' = upsert_commit(sender_profiles, db_sessions[p], detected)
         /\ db_sessions' =
              [db_sessions EXCEPT ![p].phase =
                  IF upsert_conflict(sender_profiles, db_sessions[p])
                  THEN "raised" ELSE "returned"]
    /\ UNCHANGED << session, action_log, follow_ups, tasks, process, gate >>

UpsertNext == UpsertSelect \/ UpsertCommit

SpecUpsert == Init /\ [][UpsertNext]_vars

(***************************************************************************)
(* SpecTasks: the Celery tasks that run cycles.  The beat schedule and the *)
(* start endpoint dispatch run_gmailmind_for_user, the beat schedule       *)
(* starts process_due_followups, and the worker processes run them at the  *)
(* same time.  Of a cycle the specification keeps what it does to the      *)
(* follow-ups and to the agent_status row; the rest of the cycle is the    *)
(* subject of Spec.                                                        *)
(***************************************************************************)

\* Runs of run_gmailmind_for_user waiting in the queue.
MaxQueued == 2

RunLoopTask == "run_gmailmind_for_user"

FollowUpTask == "process_due_followups"

\* The beat schedule sends run_gmailmind_for_user every
\* POLL_INTERVAL_SECONDS, whatever the agent's status.
BeatDispatch ==
    /\ tasks.queued < MaxQueued
    /\ tasks' = [tasks EXCEPT !.queued = @ + 1]
    /\ UNCHANGED << session, sender_profiles, action_log, follow_ups, db_sessions,
                    process, gate >>

\* POST /agents/{user_id}/start: the task is dispatched unless the
\* agent_status row says running (or the row cannot be read).
StartAgent ==
    /\ tasks.queued < MaxQueued
    /\ \E row_read \in BOOLEAN :
         ~(row_read /\ tasks.agent_status = "running")
    /\ tasks' = [tasks EXCEPT !.queued = @ + 1]
    /\ UNCHANGED << session, sender_profiles, action_log, follow_ups, db_sessions,
                    process, gate >>

\* A worker process starts a task: run_gmailmind_for_user from the queue,
\* which sets the status to running and calls run_agent_loop (the services
\* are built or the call raises), or process_due_followups.
TaskStart(p) ==
    /\ tasks.workers[p].pc = "idle"
    /\ \/ /\ tasks.queued > 0
          /\ \E status_written, built \in BOOLEAN :
               tasks' = [tasks EXCEPT
                   !.queued = @ - 1,
                   !.agent_status = IF status_written THEN "running" ELSE @,
                   !.workers[p] = [WorkerIdle EXCEPT
                       !.task = RunLoopTask,
                       !.pc = IF built THEN "observe" ELSE "end",
                       !.failed = ~built]]
       \/ tasks' = [tasks EXCEPT
              !.workers[p] = [WorkerIdle EXCEPT !.task = FollowUpTask, !.pc = "observe"]]
    /\ UNCHANGED << session, sender_profiles, action_log, follow_ups, db_sessions,
                    process, gate >>

\* The task reads the pending follow-ups that are due: OBSERVE of the
\* cycle, the first lines of process_due_followups.
TaskObserve(p) ==
    /\ tasks.workers[p].pc = "observe"
    /\ \/ tasks' = [tasks EXCEPT
              !.workers[p].followups = DueFollowUps,
              !.workers[p].pc =
                  IF tasks.workers[p].task = RunLoopTask THEN "emails" ELSE "followups"]
       \* the read raises
       \/ tasks' = [tasks EXCEPT !.workers[p].pc = "end"]
    /\ UNCHANGED << session, sender_profiles, action_log, follow_ups, db_sessions,
                    process, gate >>

\* The email loop of the cycle: the decision procedure may schedule a
\* follow-up.
TaskEmails(p) ==
    /\ tasks.workers[p].pc = "emails"
    /\ \/ follow_ups' = follow_ups
       \/ /\ Len(follow_ups) < MaxFollowUps
          /\ \E email_id \in {"m1", "m2"} :
               follow_ups' = create_follow_up(follow_ups, email_id, SenderOf(email_id))
    /\ tasks' = [tasks EXCEPT !.workers[p].pc = "followups"]
    /\ UNCHANGED << session, sender_profiles, action_log, db_sessions, process, gate >>

\* The head of the follow-up loop: the next follow-up of the list the task
\* read is handed to _process_due_followup, which calls Runner.run.
TaskHandOver(p) ==
    LET w == tasks.workers[p] IN
    /\ w.pc = "followups"
    /\ tasks' =
         IF \/ w.followups = << >>
            \/ w.task = RunLoopTask /\ is_daily_limit_exceeded(action_count)
         THEN [tasks EXCEPT !.workers[p].pc = "end", !.workers[p].followups = << >>]
         ELSE [tasks EXCEPT !.workers[p].pc = "think",
                            !.workers[p].item = Head(w.followups),
                            !.workers[p].followups = Tail(w.followups)]
    /\ UNCHANGED << session, sender_profiles, action_log, follow_ups, db_sessions,
                    process, gate >>

\* The end of _process_due_followup: the follow-up is marked completed.  A
\* status update that raises ends the iteration of run_agent_loop;
\* process_due_followups logs it and goes on with the next follow-up.
TaskComplete(p) ==
    LET w == tasks.workers[p] IN
    /\ w.pc = "think"
    /\ \E written \in BOOLEAN :
         /\ follow_ups' =
              IF written
              THEN update_follow_up(follow_ups, w.item, "completed")
              ELSE follow_ups
         /\ tasks' =
              IF written \/ w.task = FollowUpTask
              THEN [tasks EXCEPT !.workers[p].pc = "followups", !.workers[p].item = 0]
              ELSE [tasks EXCEPT !.workers[p].pc = "end", !.workers[p].item = 0,
                                 !.workers[p].followups = << >>]
    /\ UNCHANGED << session, sender_profiles, action_log, db_sessions, process, gate >>

\* The task returns; run_gmailmind_for_user sets the status to idle, or to
\* error when run_agent_loop raised.
TaskEnd(p) ==
    LET w == tasks.workers[p] IN
    /\ w.pc = "end"
    /\ \E status_written \in BOOLEAN :
         tasks' = [tasks EXCEPT
             !.agent_status =
                 IF w.task = RunLoopTask /\ status_written
                 THEN IF w.failed THEN "error" ELSE "idle"
                 ELSE @,
             !.workers[p] = WorkerIdle]
    /\ UNCHANGED << session, sender_profiles, action_log, follow_ups, db_sessions,
                    process, gate >>

TasksNext ==
    \/ BeatDispatch
    \/ StartAgent
    \/ \E p \in Callers : TaskStart(p)
    \/ \E p \in Callers : TaskObserve(p)
    \/ \E p \in Callers : TaskEmails(p)
    \/ \E p \in Callers : TaskHandOver(p)
    \/ \E p \in Callers : TaskComplete(p)
    \/ \E p \in Callers : TaskEnd(p)
    \/ TimePasses

SpecTasks == Init /\ [][TasksNext]_vars

(***************************************************************************)
(* Properties of the guard, checked under SpecGate and SpecMass.           *)
(***************************************************************************)

\* The order in which check_action is said to evaluate the rules: daily
\* budget, permanent deletion, mass email, credential leakage, reply to
\* spam, financial action, impersonation.
RuleOrder ==
    << HARD_RULES[7], HARD_RULES[1], HARD_RULES[2], HARD_RULES[3],
       HARD_RULES[4], HARD_RULES[5], HARD_RULES[6] >>

\* Each rule evaluated on its own, in RuleOrder.
RuleVerdicts(action, params, count) ==
    << check_daily_limit(count),
       check_permanent_deletion(action),
       check_mass_email(action, params),
       check_credential_leakage(action, params),
       check_spam_reply(action, params),
       check_financial_action(action, params),
       check_impersonation(action, params) >>

\* The rules an input violates, as indices of RuleOrder.
ViolatedRules(action, params, count) ==
    {k \in 1..7 : RuleVerdicts(action, params, count)[k].violated}

Earliest(S) == CHOOSE k \in S : \A j \in S : k <= j

\* The rules the last evaluation's input violates.
GateViolated == ViolatedRules(gate.action, gate.params, gate.count)

\* The rule id the caller of the last evaluation observes.
GateRule == RuleOfReason(gate.reason)

\* C2: once the session action count is at or above the daily limit, every
\* check_action call, whatever the action and the parameters, returns
\* not-allowed with rule stop_if_daily_limit_exceeded; the count only falls
\* when the session is reset, so this lasts until then.
C2_LimitDeniesEveryCheck ==
    (gate.kind = "check" /\ action_count >= DAILY_ACTION_LIMIT)
        => (~gate.allowed /\ GateRule = HARD_RULES[7])

\* C2 witness: a harmless label_email checked with the count above the limit
\* is denied.
C2_Witness ==
    /\ gate.kind = "check"
    /\ gate.action = "label_email"
    /\ action_count > DAILY_ACTION_LIMIT
    /\ gate.params.body = TextHi
    /\ ~gate.allowed

\* C3: the verdict of check_action names the earliest violated rule of the
\* fixed order and carries that rule's reason, and it is allowed with an
\* empty reason exactly when no rule is violated.
C3_EarliestViolatedRuleWins ==
    gate.kind = "check" =>
        IF GateViolated = {}
        THEN gate.allowed /\ gate.reason = << >>
        ELSE /\ ~gate.allowed
             /\ gate.reason =
                  RuleVerdicts(gate.action, gate.params, gate.count)[Earliest(GateViolated)].reason
             /\ GateRule = RuleOrder[Earliest(GateViolated)]

\* C3 witness: an input that violates the mass-email, the financial and the
\* impersonation rule at once is denied with the mass-email rule.
C3_Witness ==
    /\ gate.kind = "check"
    /\ GateViolated = {3, 6, 7}
    /\ GateRule = HARD_RULES[2]

\* The number of recipients a "to" value resolves to: the length of a list,
\* the number of comma-separated pieces of a str that hold a character other
\* than whitespace.
ResolvedCount(to) ==
    IF to.kind = "list" THEN Len(to.list)
    ELSE IF to.kind = "str"
    THEN Cardinality({p \in 1..(Len(to.str) + 1) :
            /\ p = 1 \/ to.str[p - 1] = ","
            /\ \E q \in p..Len(to.str) :
                 /\ ~IsSpace(to.str[q])
                 /\ \A m \in p..q : to.str[m] # ","})
    ELSE 0

\* The last evaluation's message violates no rule but, possibly, the
\* mass-email one.
OtherRulesSatisfied == GateViolated \subseteq {3}

\* C4: for send_email and create_draft with every other rule satisfied, a
\* recipient value of N recipients, as a comma-separated str or as a list,
\* is allowed for N <= 50 and denied with never_send_mass_email_over_50 for
\* N = 51, the reason carrying the count 51.
C4_FiftyAllowedFiftyOneDenied ==
    (gate.kind = "check" /\ gate.action \in {"send_email", "create_draft"}
        /\ OtherRulesSatisfied) =>
        LET N == ResolvedCount(gate.params.to) IN
        /\ N <= 50 => gate.allowed
        /\ N = 51 =>
             /\ ~gate.allowed
             /\ GateRule = HARD_RULES[2]
             /\ Contains(gate.reason, <<" ","5","1"," ","r","e","c","i","p","i","e","n","t","s">>)

\* C4 witness: create_draft with a list of 51 addresses is denied.
C4_Witness ==
    /\ gate.kind = "check"
    /\ gate.action = "create_draft"
    /\ gate.params.to = ToList(51)
    /\ ~gate.allowed
    /\ GateRule = HARD_RULES[2]

\* C5 as stated: every destructive action, for any parameters, is denied
\* with rule never_delete_email_permanently.
C5_AsStated ==
    (gate.kind = "check" /\ gate.action \in DESTRUCTIVE_ACTIONS)
        => (~gate.allowed /\ GateRule = HARD_RULES[1])

\* C5: every destructive action, for any parameters, is denied; the rule is
\* never_delete_email_permanently while the session action count is below
\* the daily limit and stop_if_daily_limit_exceeded from then on.
C5_DestructiveAlwaysDenied ==
    (gate.kind = "check" /\ gate.action \in DESTRUCTIVE_ACTIONS) =>
        /\ ~gate.allowed
        /\ GateRule = IF gate.count < DAILY_ACTION_LIMIT
                      THEN HARD_RULES[1] ELSE HARD_RULES[7]

\* C5 witness: purge is denied as a permanent deletion below the limit.
C5_Witness ==
    /\ gate.kind = "check"
    /\ gate.action = "purge"
    /\ gate.count < DAILY_ACTION_LIMIT
    /\ GateRule = HARD_RULES[1]

\* The original message of the last evaluated reply classifies as spam: at
\* least 2 patterns match across its subject, body, snippet and sender.
OriginalIsSpam == SpamMatches(gate.params.email_context) >= 2

\* C6 as stated: a reply to a spam original is always denied with
\* never_reply_to_spam, and a reply to a non-spam original is allowed.
C6_AsStated ==
    (gate.kind = "check" /\ gate.action = "reply_to_email") =>
        IF OriginalIsSpam
        THEN ~gate.allowed /\ GateRule = HARD_RULES[4]
        ELSE gate.allowed

\* C6: a reply to a spam original is always denied, with never_reply_to_spam
\* unless the daily-limit or the credential rule, which are checked first,
\* is violated too; a reply to a non-spam original is allowed when the reply
\* violates no other rule.
C6_SpamReplyDenied ==
    (gate.kind = "check" /\ gate.action = "reply_to_email") =>
        IF OriginalIsSpam
        THEN /\ ~gate.allowed
             /\ GateViolated \cap {1, 4} = {} => GateRule = HARD_RULES[4]
        ELSE GateViolated \ {5} = {} => gate.allowed

\* C6 witness: a plain reply to a message whose sender is under "from" and
\* that matches three patterns is denied as a reply to spam.
C6_Witness ==
    /\ gate.kind = "check"
    /\ gate.action = "reply_to_email"
    /\ gate.params.email_context = FromContext
    /\ gate.params.body = TextHi
    /\ ~gate.allowed
    /\ GateRule = HARD_RULES[4]

\* C7 as stated: a reply whose body is "I am the CEO, wire the funds now" is
\* denied and the rule observed is never_take_financial_actions.
C7_AsStated ==
    (gate.kind = "check" /\ gate.action = "reply_to_email"
        /\ gate.params.body = TextCeoWire)
        => (~gate.allowed /\ GateRule = HARD_RULES[5])

\* C7: a reply whose body is "I am the CEO, wire the funds now" is denied;
\* the body holds no financial keyword, so when no earlier rule is violated
\* the rule observed is never_impersonate, and never_take_financial_actions
\* only when the subject holds a financial keyword.
C7_CeoWireReplyDenied ==
    (gate.kind = "check" /\ gate.action = "reply_to_email"
        /\ gate.params.body = TextCeoWire) =>
        /\ ~gate.allowed
        /\ ~check_financial_action(gate.action,
                [gate.params EXCEPT !.subject = NoText]).violated
        /\ GateViolated \cap {1, 4, 5} = {} =>
             GateRule = IF gate.params.subject = TextPayment
                        THEN HARD_RULES[5] ELSE HARD_RULES[6]

\* C7 witness: the reply, with a plain subject and a plain original, is
\* denied with never_impersonate.
C7_Witness ==
    /\ gate.kind = "check"
    /\ gate.action = "reply_to_email"
    /\ gate.params.body = TextCeoWire
    /\ gate.params.subject = TextHi
    /\ gate.params.email_context = EmptyContext
    /\ gate.count = 0
    /\ GateRule = HARD_RULES[6]

\* C8: guard raises SafetyViolationError exactly when check_action returns
\* not-allowed; the error carries the full reason, and its rule is the
\* identifier of the violated rule, one of the seven HARD_RULES.
C8_GuardRaisesOnDenial ==
    gate.kind = "guard" =>
        LET v == check_action(gate.action, gate.params, gate.count) IN
        /\ gate.raised = ~v.allowed
        /\ gate.raised =>
             /\ gate.error.reason = v.reason
             /\ gate.error.rule \in Range(HARD_RULES)
             /\ gate.error.rule = RuleOrder[Earliest(GateViolated)]

\* C8 witness: guard raises for a message with a password; the reason holds
\* further colons after the rule id.
C8_Witness ==
    /\ gate.kind = "guard"
    /\ gate.raised
    /\ gate.error.rule = HARD_RULES[3]
    /\ Len(Split(gate.error.reason, ":")) > 2

Executed == last_call.outcome \in {"done", "raised"}

\* The last evaluation of the guard was of the last capability call's action
\* and parameters, and it allowed them.
GuardAllowedLastCall ==
    /\ gate.kind = "guard"
    /\ gate.action = last_call.action
    /\ gate.params = last_call.params
    /\ gate.allowed

\* C1: every capability call that is executed against an external
\* collaborator was preceded by a guard evaluation of the same action and
\* parameters that allowed it, and a call the guard denied is not executed,
\* on the tool wrappers' path and on the scheduler tasks' path alike.
C1_AsStated ==
    /\ Executed => GuardAllowedLastCall
    /\ last_call.outcome = "denied" => ~gate.allowed

\* The step in which _process_single_email leaves Runner.run and runs
\* REMEMBER for the email in processing.
ProcessingEnds == loop.pc = "think" /\ loop'.pc # "think"

Last(s) == s[Len(s)]

\* C10 as stated: between the start of an email's processing and its end,
\* whatever the outcome, the sender's history grows by exactly one entry
\* and the audit log by exactly one ActionRecord.
C10_AsStated ==
    [][ProcessingEnds =>
        /\ Len(HistoryOf(sender_profiles', loop.item.sender))
             = Len(loop.sender_history) + 1
        /\ Len(action_log') = Len(action_log) + 1]_vars

\* A step in which a tool wrapper is called and control stays with the
\* decision procedure.
WrapperCalled == Thinking /\ loop'.tool_calls = loop.tool_calls + 1

\* The audit log only grows at its end.
AuditAppendOnly ==
    /\ Len(action_log') >= Len(action_log)
    /\ SubSeq(action_log', 1, Len(action_log)) = action_log

\* C11: every capability call the decision procedure attempts, allowed and
\* executed or denied by the guard, leaves exactly one ActionRecord of that
\* call in the durable audit log, and the records already there are neither
\* changed nor removed.
C11_AsStated ==
    [][/\ AuditAppendOnly
       /\ WrapperCalled =>
            /\ Len(action_log') = Len(action_log) + 1
            /\ Last(action_log').tool_used = last_call'.action]_vars

\* The first cycle observed exactly one email, the one of sender s1, and
\* has processed it to the end of REMEMBER.
FirstCycleRememberedOneEmail ==
    /\ loop.pc = "sleep"
    /\ loop.cycles = 1
    /\ loop.fetched = 1
    /\ daily_summary = << "m1" >>

PendingAndDue ==
    {id \in DOMAIN follow_ups : follow_ups[id].status = "pending" /\ follow_ups[id].due}

\* The step in which _process_due_followup returns.
FollowUpProcessed == loop.pc = "think_fu" /\ loop'.pc = "followups"

\* C13: the due-follow-up fetch returns every pending follow-up whose due
\* time has come (and no other); when a follow-up has been processed, its
\* status is completed whatever the outcome text, [ERROR] included; and a
\* completed follow-up stays completed and is in no later list of due
\* follow-ups.
C13_ProcessedFollowUpIsCompleted ==
    [][/\ (loop.pc = "observe" /\ loop'.pc = "emails")
            => Range(loop'.followups) = PendingAndDue
       /\ FollowUpProcessed =>
            /\ loop'.returned \in {Ok, Error}
            /\ follow_ups'[loop.item.id].status = "completed"
       /\ \A id \in DOMAIN follow_ups :
            follow_ups[id].status = "completed" =>
                /\ follow_ups'[id].status = "completed"
                /\ id \notin Range(loop'.followups)]_vars

\* C13 witness: a follow-up whose processing ended with an [ERROR] outcome
\* is completed.
C13_Witness ==
    /\ loop.pc = "followups"
    /\ loop.returned = Error
    /\ \E id \in DOMAIN follow_ups : follow_ups[id].status = "completed"


\* The loop goes to SLEEP because a store call raised.
StoreErrorCaught == loop'.pc = "sleep" /\ loop'.caught = "store"

\* C17: an exception or a SafetyViolationError that leaves the decision
\* procedure while an email is processed does not abort the cycle: the
\* email's processing ends with the emails and the due follow-ups still to
\* process untouched, the email loop goes on with the next of them and the
\* follow-up loop after it with every due follow-up, as long as the daily
\* limit is not exceeded; only a store call that raises ends the iteration.
C17_ExceptionDoesNotAbortCycle ==
    [][/\ ProcessingEnds =>
            \/ /\ loop'.pc = "emails"
               /\ loop'.raised \in {"", "SafetyViolationError", "Exception"}
               /\ loop'.emails = loop.emails
               /\ loop'.followups = loop.followups
            \/ StoreErrorCaught
       /\ (loop.pc = "emails" /\ loop'.pc # "emails") =>
            IF loop.emails = << >> \/ is_daily_limit_exceeded(action_count)
            THEN loop'.pc = "followups" /\ loop'.followups = loop.followups
            ELSE \/ /\ loop'.pc = "think"
                    /\ loop'.item = EmailItem(Head(loop.emails))
                    /\ loop'.emails = Tail(loop.emails)
                    /\ loop'.followups = loop.followups
                 \/ StoreErrorCaught
       /\ (loop.pc = "followups" /\ loop'.pc # "followups") =>
            IF loop.followups = << >> \/ is_daily_limit_exceeded(action_count)
            THEN loop'.pc = "sleep" /\ loop'.caught = ""
            ELSE \/ /\ loop'.pc = "think_fu"
                    /\ loop'.item.id = Head(loop.followups)
                    /\ loop'.followups = Tail(loop.followups)
                 \/ StoreErrorCaught]_vars

\* C17 witness: the second email of a cycle is in processing after the
\* first one ended with a safety block.
C17_Witness ==
    /\ loop.pc = "think"
    /\ loop.item.email_id = "m2"
    /\ action_log # << >>
    /\ Last(action_log).email_from = "s1"
    /\ Last(action_log).outcome = SafetyBlock

\* The step in which the processing of an item, an inbound email or a due
\* follow-up, returns its outcome text.
ItemReturned ==
    /\ loop.pc \in {"think", "think_fu"}
    /\ loop'.pc \in {"emails", "followups"}

\* C18 as stated: for every processed item, an inbound email or a due
\* follow-up, a policy violation raised during THINK/ACT gives an outcome
\* prefixed [SAFETY BLOCK] and adds one escalation to the session, any other
\* failure gives an outcome prefixed [ERROR], and a policy denial is never
\* reported with the [ERROR] prefix.
C18_AsStated ==
    [][ItemReturned =>
        /\ loop'.raised = "SafetyViolationError" =>
             /\ loop'.returned = SafetyBlock
             /\ Len(pending_escalations') = Len(pending_escalations) + 1
        /\ loop'.raised = "Exception" =>
             /\ loop'.returned = Error
             /\ pending_escalations' = pending_escalations]_vars

\* The step in which the handling of an item ends: Runner.run is over and
\* the store writes that follow it have been made or have raised.
ItemHandled ==
    /\ loop.pc \in {"think", "think_fu"}
    /\ loop'.pc \notin {"think", "think_fu"}

\* C19 as stated: a durable-store write that fails while an item is handled
\* (the profile upsert, the ActionRecord insert, the follow-up status
\* update) does not end the cycle: the emails and the due follow-ups of the
\* cycle that are still to process stay to be processed.
C19_AsStated ==
    [][ItemHandled =>
        /\ loop'.emails = loop.emails
        /\ loop'.followups = loop.followups]_vars

\* The step in which the email loop finds the daily limit exceeded before
\* an email.
LimitFoundBeforeEmail ==
    /\ loop.pc = "emails"
    /\ loop.emails # << >>
    /\ is_daily_limit_exceeded(action_count)
    /\ loop' # loop

\* The step in which the follow-up loop finds the daily limit exceeded
\* before a due follow-up.
LimitFoundBeforeFollowUp ==
    /\ loop.pc = "followups"
    /\ loop.followups # << >>
    /\ is_daily_limit_exceeded(action_count)
    /\ loop' # loop

\* The text holds a number.
NotesANumber(text) ==
    \E i \in DOMAIN text :
        text[i] \in {"0", "1", "2", "3", "4", "5", "6", "7", "8", "9"}

\* The session holds an escalation of the loop itself.
LimitEscalated(escalations) ==
    \E i \in DOMAIN escalations : escalations[i].email_id = "SYSTEM"

\* C20 as stated: once the session's action count is found at or above the
\* limit before an item, no remaining email or due follow-up of the cycle is
\* passed to the decision procedure, one escalation is recorded for the
\* cycle and it notes the number of skipped items, and the cycle reaches
\* REPORT without failing.
C20_AsStated ==
    [][/\ LimitFoundBeforeEmail =>
            /\ loop'.pc = "followups"
            /\ Len(pending_escalations') = Len(pending_escalations) + 1
            /\ NotesANumber(Last(pending_escalations').reason)
       /\ LimitFoundBeforeFollowUp =>
            /\ loop'.pc = "sleep"
            /\ loop'.caught = ""
            /\ loop'.followups = << >>
            /\ LimitEscalated(pending_escalations')]_vars

\* The loop is inside an iteration or at its SLEEP.
InIteration == loop.pc \in {"observe", "emails", "followups", "think", "think_fu", "sleep"}

\* C21: in continuous mode an exception raised inside an iteration is caught
\* and never ends the loop: no step of an iteration ends the call, and
\* after every iteration, failed or not, the loop sleeps and then starts the
\* next iteration (as long as the bound on the number of cycles allows one).
C21_ContinuousLoopGoesOn ==
    /\ [][(InIteration /\ ~loop.single_run) =>
            /\ loop'.pc \notin {"idle", "done", "failed"}
            /\ (loop.pc = "sleep" /\ loop' # loop) => loop'.pc = "observe"
            /\ (loop.pc # "sleep" /\ loop' # loop /\ loop'.caught # "")
                 => loop'.pc = "sleep"]_vars
    /\ (loop.pc = "sleep" /\ ~loop.single_run /\ loop.cycles < MaxCycles)
          ~> (loop.pc = "observe")

\* C21 witness: a continuous loop has started its second iteration after
\* an iteration in which a store call raised.
C21_Witness ==
    /\ loop.pc = "observe"
    /\ ~loop.single_run
    /\ loop.cycles = 1
    /\ loop.caught = "store"

\* C22: when the mail service cannot be built because the credentials are
\* missing or invalid, run_agent_loop raises before the first iteration:
\* the call ends with no item observed or processed, the decision procedure
\* is not invoked, and no session state and no durable state is changed.
C22_FailedStartChangesNothing ==
    [][/\ (loop'.pc = "failed" /\ loop.pc # "failed") =>
            /\ loop.pc \in {"idle", "done"}
            /\ loop'.cycles = loop.cycles
            /\ loop'.fetched = loop.fetched
            /\ loop'.item = NoItem
            /\ UNCHANGED << session, durable, daily_summary, services,
                            last_call, gate >>
       /\ loop.pc = "failed" => loop'.pc \in {"failed", "observe"}]_vars

\* C22 witness: a call of run_agent_loop has failed to build the mail
\* service after an earlier run left records in the session and the store.
C22_Witness ==
    /\ loop.pc = "failed"
    /\ action_log # << >>
    /\ actions_taken_today # << >>

\* C23: with single_run = True and the services built, run_agent_loop makes
\* exactly one iteration and returns without sleeping, also when the
\* iteration raised an exception: the iteration is entered from the start
\* of the call only, and its end is the end of the call.
C23_SingleRunIsOneIteration ==
    [][/\ (loop.single_run /\ loop.pc = "sleep" /\ loop' # loop) =>
            /\ loop'.pc = "done"
            /\ loop'.cycles = loop.cycles
       /\ (loop'.single_run /\ loop'.pc = "observe" /\ loop.pc # "observe") =>
            loop.pc \in {"idle", "done", "failed"}
       /\ (loop'.pc = "done" /\ InIteration) =>
            loop.pc = "sleep" /\ loop.single_run
       /\ (loop.single_run /\ InIteration) => loop'.single_run]_vars

\* C23 witness: a single run has returned after an iteration in which a
\* store call raised.
C23_Witness ==
    /\ loop.pc = "done"
    /\ loop.single_run
    /\ loop.caught = "store"
    /\ loop.cycles = 1
(***************************************************************************)
(* Properties of the durable store, checked under SpecStore.               *)
(***************************************************************************)

\* The step is a call of update_follow_up.
UpdateFollowUpCalled == last_call'.action = "update_follow_up"

\* C14: a follow-up's status changes only from pending to completed or from
\* pending to cancelled, and an update addressed to a follow-up whose
\* status is not pending changes nothing and is reported as not found.
C14_AsStated ==
    [][/\ \A id \in DOMAIN follow_ups :
            follow_ups'[id].status # follow_ups[id].status =>
                /\ follow_ups[id].status = "pending"
                /\ follow_ups'[id].status \in {"completed", "cancelled"}
       /\ \A id \in DOMAIN follow_ups :
            (/\ UpdateFollowUpCalled
             /\ last_call'.params.follow_up_id = id
             /\ follow_ups[id].status # "pending")
                => (follow_ups' = follow_ups /\ last_call'.outcome = "None")]_vars

IsPrefix(s, t) == Len(s) <= Len(t) /\ SubSeq(t, 1, Len(s)) = s

\* The step is a call of update_sender_memory that supplies a history entry.
EntrySupplied ==
    /\ last_call'.action = "update_sender_memory"
    /\ last_call'.params.history_entry # NoEntry

\* C15: over any sequence of update_sender_memory calls a profile, once
\* created, is never deleted, the history before a call is a prefix of the
\* history after it, and a call that supplies a history entry lengthens the
\* history by exactly one.
C15_AsStated ==
    [][/\ \A a \in DOMAIN sender_profiles :
            /\ a \in DOMAIN sender_profiles'
            /\ IsPrefix(sender_profiles[a], sender_profiles'[a])
       /\ EntrySupplied =>
            Len(HistoryOf(sender_profiles', last_call'.params.email))
              = Len(HistoryOf(sender_profiles, last_call'.params.email)) + 1]_vars

\* Both callers have finished a call for the address, and both calls ran
\* their SELECT on the same stored history: neither saw the other's write.
BothCompleted(email) ==
    /\ \A p \in Callers :
         /\ db_sessions[p].phase \in {"returned", "raised"}
         /\ db_sessions[p].email = email
    /\ db_sessions["p1"].loaded = db_sessions["p2"].loaded
    /\ db_sessions["p1"].found = db_sessions["p2"].found

\* C16: when two update_sender_memory calls for the same address run at
\* the same time, each with a history entry, no update is lost: after both
\* have completed the profile exists and its history holds both entries,
\* also when no profile existed before either call.  Checked under
\* SpecUpsert.
C16_AsStated ==
    \A email \in {"s1", "s2"} :
        BothCompleted(email) =>
            /\ email \in DOMAIN sender_profiles
            /\ \A p \in Callers :
                 \E i \in DOMAIN sender_profiles[email] :
                     sender_profiles[email][i] = EntryOf(p)

(***************************************************************************)
(* Properties of the scheduled tasks, checked under SpecTasks.             *)
(***************************************************************************)

\* The worker process runs a cycle of the agent loop.
CycleInProgress(p) ==
    /\ tasks.workers[p].task = RunLoopTask
    /\ tasks.workers[p].pc \in {"observe", "emails", "followups", "think"}

\* C24 as stated: at no time are two cycles of the same operator in
\* progress, whether the cycles are started by the interval loop, by the
\* periodic scheduler task or by the start endpoint.
C24_AsStated ==
    \A p, q \in Callers :
        (CycleInProgress(p) /\ CycleInProgress(q)) => p = q

\* The step in which worker p hands a follow-up to the decision procedure.
HandsOver(p) ==
    /\ tasks.workers[p].pc = "followups"
    /\ tasks'.workers[p].pc = "think"

\* C25 as stated: each due follow-up is handed to the decision procedure at
\* most once, under any interleaving of the agent loop's cycle with the
\* periodic due-follow-up task: a follow-up that is handed over is still
\* pending and is in no other worker's hands.
C25_AsStated ==
    [][\A p \in Callers :
        HandsOver(p) =>
            /\ follow_ups[tasks'.workers[p].item].status = "pending"
            /\ \A q \in Callers \ {p} :
                 ~(tasks.workers[q].pc = "think"
                     /\ tasks.workers[q].item = tasks'.workers[p].item)]_vars

(***************************************************************************)
(* Properties of the state a process keeps from cycle to cycle, checked    *)
(* under Spec.                                                             *)
(***************************************************************************)

\* The step of send_daily_report that calls reset_daily_summary.
SummaryReset ==
    /\ loop.pc \in {"idle", "done", "failed"}
    /\ loop' = loop
    /\ daily_summary' = << >>

\* C26: completing a cycle never clears or shortens the daily summary or
\* the session counters: the summary grows by one entry with every email
\* whose processing returns, no other step of the loop changes it, only the
\* explicit reset empties it, and the session's emails, actions and
\* escalations only grow.
C26_CycleKeepsSummary ==
    [][/\ IsPrefix(daily_summary, daily_summary') \/ SummaryReset
       /\ InIteration =>
            /\ IsPrefix(daily_summary, daily_summary')
            /\ Len(daily_summary') =
                 Len(daily_summary)
                     + (IF loop.pc = "think" /\ loop'.pc = "emails" THEN 1 ELSE 0)
       /\ IsPrefix(actions_taken_today, actions_taken_today')
       /\ IsPrefix(pending_escalations, pending_escalations')
       /\ DOMAIN current_session_emails \subseteq DOMAIN current_session_emails'
       /\ Len(daily_summary') <= Len(action_log')]_vars

\* C26 witness: the second cycle is over and the summary holds the emails
\* of both cycles.
C26_Witness ==
    /\ loop.pc = "sleep"
    /\ loop.cycles = 2
    /\ daily_summary = << "m1", "m1" >>
    /\ actions_taken_today # << >>

\* C27 as stated: the loops of different operators share only the durable
\* store: a step of one operator's loop changes neither the action count
\* that the gate verdict and the budget check of another operator's loop
\* read nor the processed emails that the other operator's run reports.
C27_AsStated ==
    [][\A user_id \in Operators :
        (InIteration /\ loop.user_id # user_id) =>
            /\ SessionCountOf(user_id)' = SessionCountOf(user_id)
            /\ SummaryOf(user_id)' = SummaryOf(user_id)]_vars

\* C28: with the tool calls of a session made one at a time, the session
\* action count never exceeds the daily limit: a wrapper adds exactly one
\* action to the session log, after the guard allowed the call at a count
\* below the limit and the capability returned, and a call that the guard
\* denied or whose capability raised adds nothing.
C28_CountWithinLimit ==
    /\ [](action_count <= DAILY_ACTION_LIMIT)
    /\ [][/\ Len(actions_taken_today') \in {action_count, action_count + 1}
          /\ Len(actions_taken_today') = action_count + 1 =>
               /\ Thinking
               /\ last_call'.path = "tool_wrappers"
               /\ last_call'.outcome = "done"
               /\ Last(actions_taken_today') = last_call'.action
               /\ gate'.allowed
               /\ gate'.action = last_call'.action
               /\ gate'.count = action_count
               /\ action_count < DAILY_ACTION_LIMIT
          /\ (WrapperCalled /\ last_call'.outcome \in {"denied", "raised"}) =>
               actions_taken_today' = actions_taken_today]_vars

\* C28 witness: with the count at the limit a wrapper call has been denied
\* and the count is still at the limit.
C28_Witness ==
    /\ Thinking
    /\ loop.tool_calls > 0
    /\ action_count = DAILY_ACTION_LIMIT
    /\ gate.count = DAILY_ACTION_LIMIT
    /\ last_call.outcome = "denied"

\* The escalations of the session that are not about an email.
SystemEscalations(escalations) ==
    Cardinality({i \in DOMAIN escalations : escalations[i].email_id = "SYSTEM"})

\* C29 as stated: the loop never resets the session, so once the session's
\* action count has reached the daily limit in a process it stays there: no
\* email and no due follow-up is passed to the decision procedure in that
\* process any more, the follow-ups that are not being processed keep the
\* status pending, and every later cycle that has observed at least one
\* email appends exactly one SYSTEM escalation, before its first email.
C29_AsStated ==
    [][is_daily_limit_exceeded(action_count) =>
        /\ is_daily_limit_exceeded(Len(actions_taken_today'))
        /\ Thinking' =>
             /\ loop.pc = loop'.pc
             /\ loop'.item = loop.item
        /\ ~Thinking =>
             \A id \in DOMAIN follow_ups : follow_ups'[id].status = follow_ups[id].status
        /\ (loop.pc = "emails" /\ loop.emails # << >> /\ loop' # loop) =>
             /\ loop'.pc = "followups"
             /\ SystemEscalations(pending_escalations') =
                  SystemEscalations(pending_escalations) + 1
             /\ Len(pending_escalations') = Len(pending_escalations) + 1
        /\ ~(loop.pc = "emails" /\ loop.emails # << >>) =>
             SystemEscalations(pending_escalations') =
               SystemEscalations(pending_escalations)]_vars

\* The email was processed before in this process: it is in the daily
\* summary.
ProcessedBefore(email_id) ==
    \E i \in DOMAIN daily_summary : daily_summary[i] = email_id

\* C30 as stated: the session's seen-items map is never consulted to skip
\* work. An email that OBSERVE returns again in a later cycle is passed to
\* the decision procedure again, and when its processing returns it has got
\* one more history entry and one more ActionRecord, while the seen-items
\* map keeps the single entry of its id.
C30_AsStated ==
    [][/\ (/\ loop.pc = "emails"
           /\ loop.emails # << >>
           /\ ~is_daily_limit_exceeded(action_count)
           /\ loop' # loop) =>
            \/ loop'.pc = "think" /\ loop'.item = EmailItem(Head(loop.emails))
            \/ loop'.caught = "store"
       /\ (/\ ProcessingEnds
           /\ loop'.pc = "emails"
           /\ ProcessedBefore(loop.item.email_id)) =>
            /\ Len(HistoryOf(sender_profiles', loop.item.sender))
                 = Len(HistoryOf(sender_profiles, loop.item.sender)) + 1
            /\ Len(action_log') = Len(action_log) + 1
            /\ loop.item.email_id \in DOMAIN current_session_emails
            /\ current_session_emails' = current_session_emails]_vars
=============================================================================
